---- MODULE Spec2Model ----
(***************************************************************************)
(* Artifact versioning engine of the Contextable MCP server.               *)
(*                                                                         *)
(* The database (projects, artifacts, artifact_versions) is the state; one *)
(* action per storage call.  Two storage backends implement the same       *)
(* contract: the embedded one (SQLite) and the hosted one (Supabase); the  *)
(* adapter is selected at start-up and recorded in `backend`.              *)
(***************************************************************************)
EXTENDS Integers, Sequences, FiniteSets, TLC

(* ------------------------------ bounds --------------------------------- *)

\* number of identifiers generateId() hands out in one run
MaxIds == 5

\* number of identifiers handed out in one run of the hosted adapter
MaxHostedIds == 4

\* latest timestamp a call of the hosted runs may write
MaxStamp == 4

\* number of identifiers handed out in one run of the long-history runs
MaxRevisions == 13

\* number of writing calls in one run of the update runs
MaxUpdateCalls == 4

\* number of writing calls in one run of the runs with read calls
MaxCalls == 5

\* number of writing calls in one run of the search runs
MaxSearchCalls == 5

\* number of identifiers handed out in one run of the listing runs
MaxListed == 75

\* number of writing calls in one run of the project runs
MaxProjectCalls == 3

\* number of writing calls in one run of the two-tenant runs
MaxTenantCalls == 3

\* number of identifiers handed out in one run of the runs with crashes
MaxCrashIds == 4

\* number of projectSave calls started together
MaxConcurrent == 3

\* number of writing calls before the searches of the runs with a failing
\* full-text statement
MaxFallbackCalls == 4

\* number of identifiers handed out in one run of the runs that open the
\* database again
MaxInitIds == 5

\* number of identifiers handed out before the lookups by name and title
MaxLookupIds == 3

\* number of identifiers handed out before the last artifactSave of a run
MaxSaveIds == 4

\* number of update and rollback calls in flight on one hosted artifact
MaxRaceCallers == 2

\* latest time of a run of the adapter's initialize
MaxAuthClock == 3

\* MCP_CHUNK_SIZE (3000 in the source), in the scale of MCP_SAFE_SIZE: a
\* part of that many plain characters serializes within the safe size
MCP_CHUNK_SIZE == 3

\* longest content handed to chunkContent
MaxContentLen == 5

\* largest chunk size handed to chunkContent
MaxChunkSize == 4

\* the safe size of content (3500 in the source), scaled to the content
\* lengths of the chunking runs
MCP_SAFE_SIZE == 5

(* --------------------------- value universe ---------------------------- *)

\* SQL NULL / JavaScript null for text columns
NULL == "<null>"

\* an omitted (undefined) field of a create or update payload
UNDEF == "<undefined>"

\* SQL NULL for a timestamp column
NullTime == -1

Titles == {"Doc", "doc", "Notes"}

Contents == {"A", "B", "C"}

ProjectNames == {"P", "Q"}

\* names handed to projectSave: the same names in another letter case
SavedNames == {"p", "q"}

\* a project description
Descriptions == {"about"}

ChangeSources == {"update", "archive", "restore", "rollback"}

\* COLLATE NOCASE: ASCII upper-case letters fold to lower case
NOCASE(s) ==
  CASE s = "Doc" -> "doc"
    [] s = "Doc_part_1" -> "doc_part_1"
    [] s = "Doc_part_2" -> "doc_part_2"
    [] s = "Doc_part_3" -> "doc_part_3"
    [] s = "Doc_index" -> "doc_index"
    [] s = "Do_" -> "do_"
    [] s = "Notes" -> "notes"
    [] s = "P" -> "p"
    [] s = "Q" -> "q"
    [] OTHER -> s

\* an optional value: <<>> is null, <<x>> is x
Some(x) == <<x>>

None == <<>>

(* ------------------------- JSON text of tag lists ---------------------- *)

RECURSIVE JoinTokens(_)
JoinTokens(list) ==
  IF list = <<>> THEN <<>>
  ELSE IF Len(list) = 1 THEN <<list[1]>>
  ELSE <<list[1], ",">> \o JoinTokens(Tail(list))

\* JSON.stringify of a string array, as a token sequence
JSONStringify(list) == <<"[">> \o JoinTokens(list) \o <<"]">>

\* JSON.parse of such a text
JSONParse(text) ==
  SelectSeq(SubSeq(text, 2, Len(text) - 1), LAMBDA tok : tok # ",")

(* ------------------------------- state --------------------------------- *)

VARIABLES
  backend,            \* "sqlite" or "supabase": the adapter chosen at start-up
  schema,             \* the embedded database apart from the three tables:
                      \* its schema objects, the schema_version table and
                      \* the foreign_keys setting of the connection
  projects,           \* projects table: id -> row
  artifacts,          \* artifacts table: id -> row
  artifact_versions,  \* artifact_versions table: rows in insertion order
  nextId,             \* the identifier the next generateId() returns
  updateCalls,        \* per artifact: successful content updates since create,
                      \* or -1 once any other mutation was attempted on it
  last                \* the call that ran last: arguments, `existing`, outcome

vars == <<backend, schema, projects, artifacts, artifact_versions, nextId,
          updateCalls, last>>

(* ------------------------------ utilities ------------------------------ *)

\* rows of a table held as a function
Rows(table) == {table[k] : k \in DOMAIN table}

\* every timestamp the database holds
Stamps ==
  {0}
  \cup {r.updated_at : r \in Rows(projects)}
  \cup {r.updated_at : r \in Rows(artifacts)}
  \cup {r.archived_at : r \in Rows(artifacts)}

\* utils/time now(): the current timestamp; a call runs later than every
\* call whose timestamp the database still holds
now == 1 + (CHOOSE t \in Stamps : \A u \in Stamps : u <= t)

\* the table without the rows whose key is in gone
Without(table, gone) == [k \in (DOMAIN table) \ gone |-> table[k]]

\* the table with one more row
WithRow(table, row) ==
  [k \in (DOMAIN table) \cup {row.id} |-> IF k = row.id THEN row ELSE table[k]]

\* the record of a call: the tenant of the adapter that served it (NULL on
\* the embedded backend), its name and arguments, how it ended ("ok", or the
\* error thrown) and the identifier of the snapshot written (0 when none)
CallAs(user, op, id, vid, outcome, snapshot) ==
  [user |-> user, op |-> op, id |-> id, vid |-> vid, outcome |-> outcome,
   snapshot |-> snapshot]

Call(op, id, vid, outcome, snapshot) ==
  CallAs(NULL, op, id, vid, outcome, snapshot)

(* ----------------------- embedded backend: rows ------------------------ *)

rowToArtifact(row) == [row EXCEPT !.tags = JSONParse(row.tags)]

rowToVersion(row) == row

\* (variant: the constraint compares titles byte by byte)
TitleTaken_CaseSensitive(id, project_id, title) ==
  \E k \in DOMAIN artifacts :
    /\ k # id
    /\ artifacts[k].project_id = project_id
    /\ artifacts[k].title = title

\* UNIQUE (project_id, title COLLATE NOCASE) on artifacts, for a row that is
\* about to be written under key id
TitleTaken(id, project_id, title) ==
  \E k \in DOMAIN artifacts :
    /\ k # id
    /\ artifacts[k].project_id = project_id
    /\ NOCASE(artifacts[k].title) = NOCASE(title)

\* UNIQUE (name COLLATE NOCASE) on projects
NameTaken(name) ==
  \E k \in DOMAIN projects : NOCASE(projects[k].name) = NOCASE(name)

(* ----------------------- embedded backend: reads ----------------------- *)

\* SQLiteArtifactStorage.get
SQLiteGet(id) ==
  IF id \in DOMAIN artifacts THEN Some(rowToArtifact(artifacts[id])) ELSE None

\* SQLiteArtifactStorage.getVersion
SQLiteGetVersion(versionId) ==
  LET hits == SelectSeq(artifact_versions, LAMBDA v : v.id = versionId)
  IN  IF hits = <<>> THEN None ELSE Some(rowToVersion(hits[1]))

\* ORDER BY version DESC over rows given in rowid order; rows with equal
\* version keep an order the engine picks, here rowid order
RECURSIVE SortByVersionDesc(_)
SortByVersionDesc(rows) ==
  IF rows = <<>> THEN <<>>
  ELSE LET top == CHOOSE i \in 1..Len(rows) :
                    \A j \in 1..Len(rows) :
                      \/ rows[j].version < rows[i].version
                      \/ (rows[j].version = rows[i].version /\ i <= j)
           rest == [k \in 1..(Len(rows) - 1) |->
                      IF k < top THEN rows[k] ELSE rows[k + 1]]
       IN  <<rows[top]>> \o SortByVersionDesc(rest)

\* LIMIT n
Limit(rows, n) == SubSeq(rows, 1, IF Len(rows) < n THEN Len(rows) ELSE n)

\* default limit of getVersions
DefaultVersionLimit == 10

\* SQLiteArtifactStorage.getVersions for an existing artifact
SQLiteGetVersions(id, limit) ==
  Limit(SortByVersionDesc(
          SelectSeq(artifact_versions, LAMBDA v : v.artifact_id = id)), limit)

(* --------------------- embedded backend: listings ---------------------- *)

\* rowToSummary: the row without its content, with the content's size
rowToSummary(row) ==
  [id |-> row.id,
   project_id |-> row.project_id,
   title |-> row.title,
   artifact_type |-> row.artifact_type,
   summary |-> row.summary,
   priority |-> row.priority,
   tags |-> JSONParse(row.tags),
   version |-> row.version,
   archived_at |-> row.archived_at,
   created_at |-> row.created_at,
   updated_at |-> row.updated_at,
   size_chars |-> Len(row.content),
   tokens_est |-> Len(row.content) \div 4]

\* ORDER BY priority = 'core' DESC, updated_at DESC: a sorts before b
ListBefore(a, b) ==
  LET core(r) == IF r.priority = "core" THEN 1 ELSE 0
  IN  \/ core(a) > core(b)
      \/ (core(a) = core(b) /\ a.updated_at > b.updated_at)

\* the keys of a set of artifacts in the order of list(), as far as the
\* first n; rows that tie keep an order the engine picks
RECURSIVE OrderForList(_, _)
OrderForList(ids, n) ==
  IF ids = {} \/ n = 0 THEN <<>>
  ELSE LET top == CHOOSE i \in ids :
                    \A j \in ids : ~ListBefore(artifacts[j], artifacts[i])
       IN  <<top>> \o OrderForList(ids \ {top}, n - 1)

\* ORDER BY archived_at DESC LIMIT n
RECURSIVE OrderByArchivedDesc(_, _)
OrderByArchivedDesc(ids, n) ==
  IF ids = {} \/ n = 0 THEN <<>>
  ELSE LET top == CHOOSE i \in ids :
                    \A j \in ids :
                      artifacts[j].archived_at <= artifacts[i].archived_at
       IN  <<top>> \o OrderByArchivedDesc(ids \ {top}, n - 1)

\* default limit of list
DefaultListLimit == 50

\* default limit of listArchived
DefaultArchivedLimit == 20

\* rows.map(rowToSummary) over the selected keys
MapSummary(ids) == [i \in 1..Len(ids) |-> rowToSummary(artifacts[ids[i]])]

\* SQLiteArtifactStorage.list with default options
SQLiteList(projectId) ==
  MapSummary(OrderForList({i \in DOMAIN artifacts :
                            /\ artifacts[i].project_id = projectId
                            /\ artifacts[i].archived_at = NullTime},
                          DefaultListLimit))

\* (variant: listArchived selects every row of the project)
SQLiteListArchived_All(projectId) ==
  MapSummary(OrderByArchivedDesc({i \in DOMAIN artifacts :
                                   artifacts[i].project_id = projectId},
                                 DefaultArchivedLimit))

\* SQLiteArtifactStorage.listArchived with the default limit
SQLiteListArchived(projectId) ==
  MapSummary(OrderByArchivedDesc({i \in DOMAIN artifacts :
                                   /\ artifacts[i].project_id = projectId
                                   /\ artifacts[i].archived_at # NullTime},
                                 DefaultArchivedLimit))

(* ---------------------- embedded backend: writes ----------------------- *)

\* (variant: the tag is left to the column default)
VersionRowOf_DefaultTag(versionId, artifact, changeSource) ==
  [id |-> versionId,
   artifact_id |-> artifact.id,
   version |-> artifact.version,
   title |-> artifact.title,
   content |-> artifact.content,
   summary |-> artifact.summary,
   priority |-> artifact.priority,
   change_source |-> "update",
   created_at |-> artifact.updated_at]

\* the row saveVersion inserts for `artifact`
VersionRowOf(versionId, artifact, changeSource) ==
  [id |-> versionId,
   artifact_id |-> artifact.id,
   version |-> artifact.version,
   title |-> artifact.title,
   content |-> artifact.content,
   summary |-> artifact.summary,
   priority |-> artifact.priority,
   change_source |-> changeSource,
   created_at |-> artifact.updated_at]

\* (variant: INSERT OR REPLACE keyed on artifact and version number)
saveVersion_Replace(artifact, changeSource) ==
  Append(SelectSeq(artifact_versions,
                   LAMBDA v : ~(/\ v.artifact_id = artifact.id
                                /\ v.version = artifact.version)),
         VersionRowOf(nextId, artifact, changeSource))

\* SQLiteArtifactStorage.saveVersion: the table after the insert
saveVersion(artifact, changeSource) ==
  Append(artifact_versions, VersionRowOf(nextId, artifact, changeSource))

\* the ledger of update calls after a call on artifact id
Ledger(id, pureUpdate) ==
  IF id \in DOMAIN updateCalls
  THEN [updateCalls EXCEPT ![id] =
          IF pureUpdate /\ @ >= 0 THEN @ + 1 ELSE -1]
  ELSE updateCalls

\* SQLiteProjectStorage.create
SQLiteProjectCreate(name) ==
  /\ backend = "sqlite"
  /\ IF NameTaken(name)
     THEN /\ last' = Call("projects.create", 0, 0, "SqliteError", 0)
          /\ UNCHANGED <<projects, nextId>>
     ELSE /\ nextId' = nextId + 1
          /\ projects' = WithRow(projects,
                           [id |-> nextId, name |-> name, user_id |-> NULL,
                            description |-> NULL,
                            created_at |-> now, updated_at |-> now])
          /\ last' = Call("projects.create", nextId, 0, "ok", 0)
  /\ UNCHANGED <<backend, schema, artifacts, artifact_versions, updateCalls>>

\* (variant: artifact_versions has no ON DELETE CASCADE)
SQLiteProjectDelete_KeepsVersions(id) ==
  /\ backend = "sqlite"
  /\ IF id \notin DOMAIN projects
     THEN /\ last' = Call("projects.delete", id, 0, "NotFoundError", 0)
          /\ UNCHANGED <<projects, artifacts, artifact_versions, updateCalls>>
     ELSE LET gone == {a \in DOMAIN artifacts : artifacts[a].project_id = id}
          IN  /\ projects' = Without(projects, {id})
              /\ artifacts' = Without(artifacts, gone)
              /\ updateCalls' = Without(updateCalls, gone)
              /\ last' = Call("projects.delete", id, 0, "ok", 0)
              /\ UNCHANGED artifact_versions
  /\ UNCHANGED <<backend, schema, nextId>>

\* SQLiteProjectStorage.delete, with the ON DELETE CASCADE of the schema
SQLiteProjectDelete(id) ==
  /\ backend = "sqlite"
  /\ IF id \notin DOMAIN projects
     THEN /\ last' = Call("projects.delete", id, 0, "NotFoundError", 0)
          /\ UNCHANGED <<projects, artifacts, artifact_versions, updateCalls>>
     ELSE LET gone == {a \in DOMAIN artifacts : artifacts[a].project_id = id}
          IN  /\ projects' = Without(projects, {id})
              /\ artifacts' = Without(artifacts, gone)
              /\ artifact_versions' =
                   SelectSeq(artifact_versions,
                             LAMBDA v : v.artifact_id \notin gone)
              /\ updateCalls' = Without(updateCalls, gone)
              /\ last' = Call("projects.delete", id, 0, "ok", 0)
  /\ UNCHANGED <<backend, schema, nextId>>

\* the row SQLiteArtifactStorage.create inserts
NewArtifactRow(id, data, tagsText) ==
  [id |-> id,
   project_id |-> data.project_id,
   title |-> data.title,
   artifact_type |-> data.artifact_type,
   content |-> data.content,
   summary |-> IF data.summary = UNDEF THEN NULL ELSE data.summary,
   priority |-> IF data.priority = UNDEF THEN "normal" ELSE data.priority,
   tags |-> tagsText,
   version |-> 1,
   archived_at |-> NullTime,
   created_at |-> now,
   updated_at |-> now]

\* SQLiteArtifactStorage.create
SQLiteCreate(data) ==
  /\ backend = "sqlite"
  /\ IF \/ data.project_id \notin DOMAIN projects
        \/ TitleTaken(nextId, data.project_id, data.title)
     THEN /\ last' = Call("create", 0, 0, "SqliteError", 0)
          /\ UNCHANGED <<artifacts, updateCalls, nextId>>
     ELSE LET row == NewArtifactRow(nextId, data,
                       JSONStringify(IF data.tags = None THEN <<>>
                                     ELSE data.tags[1]))
          IN  /\ nextId' = nextId + 1
              /\ artifacts' = WithRow(artifacts, row)
              /\ updateCalls' =
                   [k \in (DOMAIN updateCalls) \cup {nextId} |->
                      IF k = nextId THEN 0 ELSE updateCalls[k]]
              /\ last' = Call("create", nextId, 0, "ok", 0)
  /\ UNCHANGED <<backend, schema, projects, artifact_versions>>

\* the fields an update payload supplies (tags is an optional list: None when
\* omitted)
Supplied(data) ==
  {f \in {"title", "content", "summary", "priority"} : data[f] # UNDEF}
  \cup (IF data.tags # None THEN {"tags"} ELSE {})

\* (variant: the UPDATE statement leaves the version column alone)
UpdatedRow_NoBump(row, data) ==
  [row EXCEPT
     !.title = IF data.title # UNDEF THEN data.title ELSE @,
     !.content = IF data.content # UNDEF THEN data.content ELSE @,
     !.summary = IF data.summary # UNDEF THEN data.summary ELSE @,
     !.priority = IF data.priority # UNDEF THEN data.priority ELSE @,
     !.tags = IF data.tags # None THEN JSONStringify(data.tags[1]) ELSE @,
     !.updated_at = now]

\* (variant: the UPDATE statement sets the summary column from the payload
\* whether or not the payload has one)
UpdatedRow_ClearsSummary(row, data) ==
  [row EXCEPT
     !.title = IF data.title # UNDEF THEN data.title ELSE @,
     !.content = IF data.content # UNDEF THEN data.content ELSE @,
     !.summary = IF data.summary # UNDEF THEN data.summary ELSE NULL,
     !.priority = IF data.priority # UNDEF THEN data.priority ELSE @,
     !.tags = IF data.tags # None THEN JSONStringify(data.tags[1]) ELSE @,
     !.version = @ + 1,
     !.updated_at = now]

\* the artifacts row after the UPDATE statement of update()
UpdatedRow(row, data) ==
  [row EXCEPT
     !.title = IF data.title # UNDEF THEN data.title ELSE @,
     !.content = IF data.content # UNDEF THEN data.content ELSE @,
     !.summary = IF data.summary # UNDEF THEN data.summary ELSE @,
     !.priority = IF data.priority # UNDEF THEN data.priority ELSE @,
     !.tags = IF data.tags # None THEN JSONStringify(data.tags[1]) ELSE @,
     !.version = @ + 1,
     !.updated_at = now]

\* SQLiteArtifactStorage.update
SQLiteUpdate(id, data) ==
  /\ backend = "sqlite"
  /\ LET existing == SQLiteGet(id)
     IN  IF existing = None
         THEN /\ last' = Call("update", id, 0, "NotFoundError", 0)
              /\ UNCHANGED <<artifacts, artifact_versions, nextId, updateCalls>>
         ELSE /\ artifact_versions' = saveVersion(existing[1], "update")
              /\ nextId' = nextId + 1
              /\ IF Supplied(data) = {}
                 THEN /\ last' = Call("update", id, 0, "ok", nextId)
                      /\ updateCalls' = Ledger(id, FALSE)
                      /\ UNCHANGED artifacts
                 ELSE IF /\ data.title # UNDEF
                         /\ TitleTaken(id, artifacts[id].project_id, data.title)
                 THEN /\ last' = Call("update", id, 0, "SqliteError", nextId)
                      /\ updateCalls' = Ledger(id, FALSE)
                      /\ UNCHANGED artifacts
                 ELSE /\ artifacts' =
                           [artifacts EXCEPT ![id] = UpdatedRow(@, data)]
                      /\ last' = Call("update", id, 0, "ok", nextId)
                      /\ updateCalls' = Ledger(id, data.content # UNDEF)
  /\ UNCHANGED <<backend, schema, projects>>

\* (variant: the early return of archive() is never taken)
AlreadyArchived_Never(existing) == FALSE

\* archive(): `if (existing.archived_at)`
AlreadyArchived(existing) == existing.archived_at # NullTime

\* (variant: archive() bumps the version like restore())
ArchivedRow_Bumps(row) ==
  [row EXCEPT !.archived_at = now, !.updated_at = now, !.version = @ + 1]

\* the artifacts row after the UPDATE statement of archive()
ArchivedRow(row) == [row EXCEPT !.archived_at = now, !.updated_at = now]

\* SQLiteArtifactStorage.archive
SQLiteArchive(id) ==
  /\ backend = "sqlite"
  /\ LET existing == SQLiteGet(id)
     IN  IF existing = None
         THEN /\ last' = Call("archive", id, 0, "NotFoundError", 0)
              /\ UNCHANGED <<artifacts, artifact_versions, nextId, updateCalls>>
         ELSE IF AlreadyArchived(existing[1])
         THEN /\ last' = Call("archive", id, 0, "ok", 0)
              /\ UNCHANGED <<artifacts, artifact_versions, nextId, updateCalls>>
         ELSE /\ artifact_versions' = saveVersion(existing[1], "archive")
              /\ nextId' = nextId + 1
              /\ artifacts' = [artifacts EXCEPT ![id] = ArchivedRow(@)]
              /\ updateCalls' = Ledger(id, FALSE)
              /\ last' = Call("archive", id, 0, "ok", nextId)
  /\ UNCHANGED <<backend, schema, projects>>

\* (variant: the early return of restore() is never taken)
NotArchived_Never(existing) == FALSE

\* restore(): `if (!existing.archived_at)`
NotArchived(existing) == existing.archived_at = NullTime

\* the artifacts row after the UPDATE statement of restore()
RestoredRow(row) ==
  [row EXCEPT !.archived_at = NullTime, !.updated_at = now, !.version = @ + 1]

\* SQLiteArtifactStorage.restore
SQLiteRestore(id) ==
  /\ backend = "sqlite"
  /\ LET existing == SQLiteGet(id)
     IN  IF existing = None
         THEN /\ last' = Call("restore", id, 0, "NotFoundError", 0)
              /\ UNCHANGED <<artifacts, artifact_versions, nextId, updateCalls>>
         ELSE IF NotArchived(existing[1])
         THEN /\ last' = Call("restore", id, 0, "ok", 0)
              /\ UNCHANGED <<artifacts, artifact_versions, nextId, updateCalls>>
         ELSE /\ artifact_versions' = saveVersion(existing[1], "restore")
              /\ nextId' = nextId + 1
              /\ artifacts' = [artifacts EXCEPT ![id] = RestoredRow(@)]
              /\ updateCalls' = Ledger(id, FALSE)
              /\ last' = Call("restore", id, 0, "ok", nextId)
  /\ UNCHANGED <<backend, schema, projects>>

\* (variant: rollback() takes the version number of the snapshot)
RolledBackRow_OldVersion(row, version, existing) ==
  [row EXCEPT
     !.title = version.title,
     !.content = version.content,
     !.summary = version.summary,
     !.priority = IF version.priority = NULL THEN existing.priority
                  ELSE version.priority,
     !.version = version.version,
     !.updated_at = now]

\* (variant: rollback() forgets the summary column)
RolledBackRow_NoSummary(row, version, existing) ==
  [row EXCEPT
     !.title = version.title,
     !.content = version.content,
     !.priority = IF version.priority = NULL THEN existing.priority
                  ELSE version.priority,
     !.version = @ + 1,
     !.updated_at = now]

\* the artifacts row after the UPDATE statement of rollback()
RolledBackRow(row, version, existing) ==
  [row EXCEPT
     !.title = version.title,
     !.content = version.content,
     !.summary = version.summary,
     !.priority = IF version.priority = NULL THEN existing.priority
                  ELSE version.priority,
     !.version = @ + 1,
     !.updated_at = now]

\* SQLiteArtifactStorage.rollback
SQLiteRollback(id, versionId) ==
  /\ backend = "sqlite"
  /\ LET existing == SQLiteGet(id)
         version == SQLiteGetVersion(versionId)
     IN  IF existing = None
         THEN /\ last' = Call("rollback", id, versionId, "NotFoundError", 0)
              /\ UNCHANGED <<artifacts, artifact_versions, nextId, updateCalls>>
         ELSE IF version = None \/ version[1].artifact_id # id
         THEN /\ last' = Call("rollback", id, versionId, "NotFoundError", 0)
              /\ UNCHANGED <<artifacts, artifact_versions, nextId, updateCalls>>
         ELSE /\ artifact_versions' = saveVersion(existing[1], "rollback")
              /\ nextId' = nextId + 1
              /\ updateCalls' = Ledger(id, FALSE)
              /\ IF TitleTaken(id, artifacts[id].project_id, version[1].title)
                 THEN /\ last' = Call("rollback", id, versionId, "SqliteError", nextId)
                      /\ UNCHANGED artifacts
                 ELSE /\ artifacts' =
                           [artifacts EXCEPT
                              ![id] = RolledBackRow(@, version[1], existing[1])]
                      /\ last' = Call("rollback", id, versionId, "ok", nextId)
  /\ UNCHANGED <<backend, schema, projects>>

\* update, restore or rollback of an existing artifact when the process
\* stops after the INSERT of saveVersion has run (each statement commits on
\* its own) and before the UPDATE of the artifacts row runs
SQLiteCrashAfterSaveVersion(op, id, versionId) ==
  /\ backend = "sqlite"
  /\ op \in {"update", "restore", "rollback"}
  /\ SQLiteGet(id) # None
  /\ op = "restore" => ~NotArchived(SQLiteGet(id)[1])
  /\ op = "rollback" =>
       /\ SQLiteGetVersion(versionId) # None
       /\ SQLiteGetVersion(versionId)[1].artifact_id = id
  /\ op # "rollback" => versionId = 0
  /\ artifact_versions' = saveVersion(SQLiteGet(id)[1], op)
  /\ nextId' = nextId + 1
  /\ updateCalls' = Ledger(id, FALSE)
  /\ last' = Call(op, id, versionId, "crash", nextId)
  /\ UNCHANGED <<backend, schema, projects, artifacts>>

(* ---------------------- embedded backend: schema ----------------------- *)

\* what 001_initial.sql creates: tables, indexes, the full-text table and
\* its triggers
SchemaObjects ==
  {"projects", "idx_projects_status", "idx_projects_name",
   "artifacts", "idx_artifacts_project", "idx_artifacts_type",
   "idx_artifacts_priority", "idx_artifacts_archived",
   "artifact_versions", "idx_versions_artifact",
   "artifacts_fts", "artifacts_ai", "artifacts_ad", "artifacts_au",
   "schema_version"}

\* loadMigrations: the migrations in version order
Migrations == <<[version |-> 1, name |-> "001_initial"]>>

\* a database file that was just created
EmptyDatabase ==
  [objects |-> {}, schema_version |-> {}, foreign_keys |-> FALSE]

\* (variant: the stored version is never found)
getCurrentVersion_Zero(db) == 0

\* getCurrentVersion: MAX(version) of schema_version, 0 when the table is
\* empty or the SELECT throws because it does not exist
getCurrentVersion(db) ==
  IF "schema_version" \notin db.objects \/ db.schema_version = {}
  THEN 0
  ELSE CHOOSE v \in {r.version : r \in db.schema_version} :
         \A r \in db.schema_version : r.version <= v

\* db.exec(migration.sql) at time at: every CREATE is IF NOT EXISTS, and
\* INSERT OR IGNORE keeps a schema_version row that is there
ExecMigration(db, migration, at) ==
  [db EXCEPT
     !.objects = @ \cup SchemaObjects,
     !.schema_version =
       IF \E r \in @ : r.version = migration.version THEN @
       ELSE @ \cup {[version |-> migration.version, applied_at |-> at]}]

\* for (const migration of pendingMigrations) db.exec(migration.sql)
RECURSIVE ExecAll(_, _, _)
ExecAll(db, pending, at) ==
  IF pending = <<>> THEN db
  ELSE ExecAll(ExecMigration(db, pending[1], at), Tail(pending), at)

\* the migrations runMigrations finds pending
PendingMigrations(db) ==
  SelectSeq(Migrations, LAMBDA m : m.version > getCurrentVersion(db))

\* initializeDatabase: the pragma, then runMigrations
initializeDatabase(db, at) ==
  ExecAll([db EXCEPT !.foreign_keys = TRUE], PendingMigrations(db), at)

\* the database of an adapter that was constructed and initialized
Migrated == initializeDatabase(EmptyDatabase, 0)

\* SQLiteAdapter.initialize; the call record names the migrations it ran
SQLiteInitialize ==
  /\ backend = "sqlite"
  /\ schema' = initializeDatabase(schema, now)
  /\ last' = [user |-> NULL, op |-> "initialize", id |-> 0, vid |-> 0,
              outcome |-> "ok", snapshot |-> 0,
              applied |-> [i \in 1..Len(PendingMigrations(schema)) |->
                             PendingMigrations(schema)[i].version]]
  /\ UNCHANGED <<backend, projects, artifacts, artifact_versions, nextId,
                 updateCalls>>

(* -------------------- embedded backend: read calls --------------------- *)

\* a call that reads and writes nothing
ReadOnly == UNCHANGED <<backend, schema, projects, artifacts, artifact_versions,
                        nextId, updateCalls>>

\* a call of SQLiteArtifactStorage.get: the outcome is "null" when it
\* returns null
SQLiteGetCall(id) ==
  /\ backend = "sqlite"
  /\ last' = Call("get", id, 0,
                  IF SQLiteGet(id) = None THEN "null" ELSE "ok", 0)
  /\ ReadOnly

\* a call of SQLiteArtifactStorage.getVersion
SQLiteGetVersionCall(versionId) ==
  /\ backend = "sqlite"
  /\ last' = Call("getVersion", 0, versionId,
                  IF SQLiteGetVersion(versionId) = None THEN "null" ELSE "ok",
                  0)
  /\ ReadOnly

\* a call of SQLiteArtifactStorage.getVersions
SQLiteGetVersionsCall(id) ==
  /\ backend = "sqlite"
  /\ last' = Call("getVersions", id, 0,
                  IF SQLiteGet(id) = None THEN "NotFoundError" ELSE "ok", 0)
  /\ ReadOnly

(* --------------------------- hosted backend ---------------------------- *)

\* the tenants of the hosted database
Tenants == {"u1", "u2"}

\* SupabaseArtifactStorage.rowToArtifact
SupabaseRowToArtifact(row) ==
  [row EXCEPT !.priority = IF @ = NULL THEN "normal" ELSE @]

\* SupabaseArtifactStorage.verifyProjectOwnership: TRUE when it returns
verifyProjectOwnership(userId, projectId) ==
  /\ projectId \in DOMAIN projects
  /\ projects[projectId].user_id = userId

\* SupabaseArtifactStorage.get, called by the adapter of tenant userId
SupabaseGet(userId, id) ==
  IF /\ id \in DOMAIN artifacts
     /\ projects[artifacts[id].project_id].user_id = userId
  THEN Some(SupabaseRowToArtifact(artifacts[id]))
  ELSE None

\* (variant: getVersion does not look at the owner of the snapshot)
SupabaseGetVersion_AnyOwner(userId, versionId) ==
  LET hits == SelectSeq(artifact_versions, LAMBDA v : v.id = versionId)
  IN  IF hits # <<>> THEN Some(hits[1]) ELSE None

\* SupabaseArtifactStorage.getVersion, called by the adapter of tenant userId
SupabaseGetVersion(userId, versionId) ==
  LET hits == SelectSeq(artifact_versions, LAMBDA v : v.id = versionId)
  IN  IF /\ hits # <<>>
         /\ projects[artifacts[hits[1].artifact_id].project_id].user_id = userId
      THEN Some(hits[1])
      ELSE None

\* The hosted database, not the client, writes artifact_versions: a trigger
\* on artifacts captures the row as it was before an UPDATE.  The trigger is
\* not part of the client, so whether it fires for a given UPDATE is left
\* open; a row it writes carries the column default of change_source.  These
\* are the tables it can leave behind.
TriggerOutcomes(old) ==
  {artifact_versions,
   Append(artifact_versions, VersionRowOf(nextId, old, "update"))}

\* an UPDATE of one artifacts row on the hosted database
HostedUpdateRow(userId, op, id, vid, row) ==
  /\ artifacts' = [artifacts EXCEPT ![id] = row]
  /\ \E table \in TriggerOutcomes(artifacts[id]) :
       /\ artifact_versions' = table
       /\ nextId' = IF table = artifact_versions THEN nextId ELSE nextId + 1
       /\ last' = CallAs(userId, op, id, vid, "ok",
                         IF table = artifact_versions THEN 0 ELSE nextId)

\* a hosted call that fails or returns without writing
HostedNoWrite(userId, op, id, vid, outcome) ==
  /\ last' = CallAs(userId, op, id, vid, outcome, 0)
  /\ UNCHANGED <<artifacts, artifact_versions, nextId>>

\* SupabaseProjectStorage.create
SupabaseProjectCreate(userId, name) ==
  /\ backend = "supabase"
  /\ nextId' = nextId + 1
  /\ projects' = WithRow(projects,
                   [id |-> nextId, name |-> name, user_id |-> userId,
                    description |-> NULL,
                    created_at |-> now, updated_at |-> now])
  /\ last' = CallAs(userId, "projects.create", nextId, 0, "ok", 0)
  /\ UNCHANGED <<backend, schema, artifacts, artifact_versions, updateCalls>>

\* SupabaseArtifactStorage.create
SupabaseCreate(userId, data) ==
  /\ backend = "supabase"
  /\ IF ~verifyProjectOwnership(userId, data.project_id)
     THEN /\ last' = CallAs(userId, "create", 0, 0, "Error", 0)
          /\ UNCHANGED <<artifacts, nextId>>
     ELSE /\ nextId' = nextId + 1
          /\ artifacts' =
               WithRow(artifacts,
                 NewArtifactRow(nextId, data,
                   IF data.tags = None THEN <<>> ELSE data.tags[1]))
          /\ last' = CallAs(userId, "create", nextId, 0, "ok", 0)
  /\ UNCHANGED <<backend, schema, projects, artifact_versions, updateCalls>>

\* the row SupabaseArtifactStorage.update writes
SupabaseUpdatedRow(row, existing, data) ==
  [row EXCEPT
     !.version = existing.version + 1,
     !.updated_at = now,
     !.title = IF data.title # UNDEF THEN data.title ELSE @,
     !.content = IF data.content # UNDEF THEN data.content ELSE @,
     !.summary = IF data.summary # UNDEF THEN data.summary ELSE @,
     !.priority = IF data.priority # UNDEF THEN data.priority ELSE @,
     !.tags = IF data.tags # None THEN data.tags[1] ELSE @]

\* SupabaseArtifactStorage.update
SupabaseUpdate(userId, id, data) ==
  /\ backend = "supabase"
  /\ LET existing == SupabaseGet(userId, id)
     IN  IF existing = None
         THEN HostedNoWrite(userId, "update", id, 0, "Error")
         ELSE HostedUpdateRow(userId, "update", id, 0,
                SupabaseUpdatedRow(artifacts[id], existing[1], data))
  /\ UNCHANGED <<backend, schema, projects, updateCalls>>

\* the row SupabaseArtifactStorage.archive writes
SupabaseArchivedRow(row) == [row EXCEPT !.archived_at = now]

\* SupabaseArtifactStorage.archive
SupabaseArchive(userId, id) ==
  /\ backend = "supabase"
  /\ LET existing == SupabaseGet(userId, id)
     IN  IF existing = None
         THEN HostedNoWrite(userId, "archive", id, 0, "Error")
         ELSE IF existing[1].archived_at # NullTime
         THEN HostedNoWrite(userId, "archive", id, 0, "ok")
         ELSE HostedUpdateRow(userId, "archive", id, 0,
                SupabaseArchivedRow(artifacts[id]))
  /\ UNCHANGED <<backend, schema, projects, updateCalls>>

\* the row SupabaseArtifactStorage.restore writes
SupabaseRestoredRow(row) == [row EXCEPT !.archived_at = NullTime]

\* SupabaseArtifactStorage.restore
SupabaseRestore(userId, id) ==
  /\ backend = "supabase"
  /\ IF \/ id \notin DOMAIN artifacts
        \/ projects[artifacts[id].project_id].user_id # userId
     THEN HostedNoWrite(userId, "restore", id, 0, "Error")
     ELSE IF artifacts[id].archived_at = NullTime
     THEN HostedNoWrite(userId, "restore", id, 0, "ok")
     ELSE HostedUpdateRow(userId, "restore", id, 0,
            SupabaseRestoredRow(artifacts[id]))
  /\ UNCHANGED <<backend, schema, projects, updateCalls>>

\* the row SupabaseArtifactStorage.rollback writes
SupabaseRolledBackRow(row, version, existing) ==
  [row EXCEPT
     !.title = version.title,
     !.content = version.content,
     !.summary = version.summary,
     !.priority = IF version.priority = NULL THEN existing.priority
                  ELSE version.priority,
     !.version = existing.version + 1,
     !.updated_at = now]

\* SupabaseArtifactStorage.rollback
SupabaseRollback(userId, id, versionId) ==
  /\ backend = "supabase"
  /\ LET version == SupabaseGetVersion(userId, versionId)
         existing == SupabaseGet(userId, id)
     IN  IF version = None
         THEN HostedNoWrite(userId, "rollback", id, versionId, "Error")
         ELSE IF version[1].artifact_id # id
         THEN HostedNoWrite(userId, "rollback", id, versionId, "Error")
         ELSE IF existing = None
         THEN HostedNoWrite(userId, "rollback", id, versionId, "Error")
         ELSE HostedUpdateRow(userId, "rollback", id, versionId,
                SupabaseRolledBackRow(artifacts[id], version[1], existing[1]))
  /\ UNCHANGED <<backend, schema, projects, updateCalls>>

\* a call of SupabaseArtifactStorage.get
SupabaseGetCall(userId, id) ==
  /\ backend = "supabase"
  /\ last' = CallAs(userId, "get", id, 0,
                    IF SupabaseGet(userId, id) = None THEN "null" ELSE "ok", 0)
  /\ ReadOnly

\* a call of SupabaseArtifactStorage.getVersion
SupabaseGetVersionCall(userId, versionId) ==
  /\ backend = "supabase"
  /\ last' = CallAs(userId, "getVersion", 0, versionId,
                    IF SupabaseGetVersion(userId, versionId) = None
                    THEN "null" ELSE "ok", 0)
  /\ ReadOnly

\* a call of SupabaseArtifactStorage.getVersions
SupabaseGetVersionsCall(userId, id) ==
  /\ backend = "supabase"
  /\ last' = CallAs(userId, "getVersions", id, 0,
                    IF SupabaseGet(userId, id) = None THEN "Error" ELSE "ok", 0)
  /\ ReadOnly

(* ------------------------------- search -------------------------------- *)

\* the characters of the strings that titles, contents, summaries and
\* queries are drawn from
Chars(s) ==
  CASE s = "Doc" -> <<"D", "o", "c">>
    [] s = "doc" -> <<"d", "o", "c">>
    [] s = "Notes" -> <<"N", "o", "t", "e", "s">>
    [] s = "A" -> <<"A">>
    [] s = "B" -> <<"B">>
    [] s = "C" -> <<"C">>
    [] s = "s" -> <<"s">>
    [] s = "s2" -> <<"s", "2">>
    [] s = "do" -> <<"d", "o">>
    [] s = "OC" -> <<"O", "C">>
    [] s = "b" -> <<"b">>
    [] s = "s_" -> <<"s", "_">>
    [] s = "Do_" -> <<"D", "o", "_">>
    [] s = "P" -> <<"P">>
    [] s = "Q" -> <<"Q">>
    [] s = "p" -> <<"p">>
    [] s = "q" -> <<"q">>

\* ASCII lower case of one character
LowerChar(c) ==
  CASE c = "A" -> "a"
    [] c = "B" -> "b"
    [] c = "C" -> "c"
    [] c = "D" -> "d"
    [] c = "N" -> "n"
    [] c = "O" -> "o"
    [] c = "P" -> "p"
    [] c = "Q" -> "q"
    [] OTHER -> c

Lower(chars) == [i \in 1..Len(chars) |-> LowerChar(chars[i])]

\* the queries callers search for: a prefix, an inner substring in upper
\* case, a letter of a content, a letter followed by the LIKE wildcard
Queries == {"do", "OC", "b", "s_"}

\* default limit of search
DefaultSearchLimit == 20

\* the body of a LIKE pattern as the engine reads it, without an ESCAPE
\* clause: `_` stands for any one character, every other character for
\* itself, ignoring case
LikePattern(chars) ==
  [i \in 1..Len(chars) |->
     IF chars[i] = "_" THEN [any |-> TRUE, ch |-> "_"]
     ELSE [any |-> FALSE, ch |-> LowerChar(chars[i])]]

\* query.replace(/[%_\\]/g, '\\$&') of the hosted adapter
RECURSIVE EscapeLike(_)
EscapeLike(chars) ==
  IF chars = <<>> THEN <<>>
  ELSE (IF chars[1] \in {"%", "_", "\\"} THEN <<"\\", chars[1]>>
        ELSE <<chars[1]>>) \o EscapeLike(Tail(chars))

\* the body of an ilike pattern as the hosted database reads it: a
\* backslash makes the next character stand for itself
RECURSIVE ILikePattern(_)
ILikePattern(chars) ==
  IF chars = <<>> THEN <<>>
  ELSE IF chars[1] = "\\" /\ Len(chars) > 1
  THEN <<[any |-> FALSE, ch |-> LowerChar(chars[2])]>>
         \o ILikePattern(Tail(Tail(chars)))
  ELSE IF chars[1] = "_"
  THEN <<[any |-> TRUE, ch |-> "_"]>> \o ILikePattern(Tail(chars))
  ELSE <<[any |-> FALSE, ch |-> LowerChar(chars[1])]>>
         \o ILikePattern(Tail(chars))

\* column LIKE '%pattern%'; NULL never matches
LikeMatches(text, pattern) ==
  /\ text # NULL
  /\ LET t == Lower(Chars(text))
     IN  \E i \in 1..(Len(t) - Len(pattern) + 1) :
           \A k \in 1..Len(pattern) :
             pattern[k].any \/ pattern[k].ch = t[i + k - 1]

\* the tokens the full-text index holds for a column value: runs of letters
\* and digits, in lower case (every value of the universe is one run)
Tokenize(text) ==
  IF text = NULL THEN {}
  ELSE {SelectSeq(Lower(Chars(text)), LAMBDA c : c # "_")}

\* artifacts_fts, kept by the triggers artifacts_ai, artifacts_ad and
\* artifacts_au: the tokens of title, content and summary of every row
artifacts_fts ==
  [id \in DOMAIN artifacts |->
     Tokenize(artifacts[id].title) \cup Tokenize(artifacts[id].content)
       \cup Tokenize(artifacts[id].summary)]

\* prepareFtsQuery: every word of the query becomes a prefix term (every
\* query of the universe is one word)
prepareFtsQuery(query) == Tokenize(query)

\* artifacts_fts MATCH ?: some token of the row starts with some term
FtsMatches(id, terms) ==
  \E term \in terms, tok \in artifacts_fts[id] :
    /\ Len(term) <= Len(tok)
    /\ SubSeq(tok, 1, Len(term)) = term

\* ORDER BY updated_at DESC LIMIT n
RECURSIVE OrderByUpdatedDesc(_, _)
OrderByUpdatedDesc(ids, n) ==
  IF ids = {} \/ n = 0 THEN <<>>
  ELSE LET top == CHOOSE i \in ids :
                    \A j \in ids :
                      artifacts[j].updated_at <= artifacts[i].updated_at
       IN  <<top>> \o OrderByUpdatedDesc(ids \ {top}, n - 1)

\* ORDER BY rank LIMIT n: the engine ranks the hits
RECURSIVE OrderByRank(_, _)
OrderByRank(ids, n) ==
  IF ids = {} \/ n = 0 THEN <<>>
  ELSE LET top == CHOOSE i \in ids : TRUE
       IN  <<top>> \o OrderByRank(ids \ {top}, n - 1)

\* rows.map(...) of search: the result of one hit (snippet and score left
\* out)
SearchResultOf(id) ==
  [id |-> id,
   artifact_id |-> id,
   project_id |-> artifacts[id].project_id,
   project_name |-> projects[artifacts[id].project_id].name,
   title |-> artifacts[id].title,
   artifact_type |-> artifacts[id].artifact_type,
   summary |-> artifacts[id].summary,
   priority |-> artifacts[id].priority,
   updated_at |-> artifacts[id].updated_at]

MapResults(ids) == [i \in 1..Len(ids) |-> SearchResultOf(ids[i])]

\* the rows options.projectId lets through; None when it is not given
InScope(id, projectId) ==
  projectId = None \/ artifacts[id].project_id = projectId[1]

\* const limit = options?.limit ?? 20; None when no limit is given
LimitOf(limit) == IF limit = None THEN DefaultSearchLimit ELSE limit[1]

\* the full-text statement of search with options.limit
SQLiteSearchLimited(query, projectId, limit) ==
  MapResults(OrderByRank({id \in DOMAIN artifacts :
                            /\ FtsMatches(id, prepareFtsQuery(query))
                            /\ artifacts[id].archived_at = NullTime
                            /\ InScope(id, projectId)},
                         LimitOf(limit)))

\* (variant: the full-text statement has no archived_at condition)
SQLiteSearch_Archived(query, projectId) ==
  MapResults(OrderByRank({id \in DOMAIN artifacts :
                            /\ FtsMatches(id, prepareFtsQuery(query))
                            /\ InScope(id, projectId)},
                         DefaultSearchLimit))

\* SQLiteAdapter.search when the full-text statement runs
SQLiteSearch(query, projectId) ==
  MapResults(OrderByRank({id \in DOMAIN artifacts :
                            /\ FtsMatches(id, prepareFtsQuery(query))
                            /\ artifacts[id].archived_at = NullTime
                            /\ InScope(id, projectId)},
                         DefaultSearchLimit))

\* SQLiteAdapter.fallbackSearch with options.limit
fallbackSearchLimited(query, projectId, limit) ==
  LET pattern == LikePattern(Chars(query))
  IN  MapResults(OrderByUpdatedDesc(
        {id \in DOMAIN artifacts :
           /\ artifacts[id].archived_at = NullTime
           /\ \/ LikeMatches(artifacts[id].title, pattern)
              \/ LikeMatches(artifacts[id].content, pattern)
              \/ LikeMatches(artifacts[id].summary, pattern)
           /\ InScope(id, projectId)},
        LimitOf(limit)))

\* SQLiteAdapter.fallbackSearch, taken when the full-text statement throws
fallbackSearch(query, projectId) ==
  fallbackSearchLimited(query, projectId, None)

\* score: 1 of the fallback results
WithScore(results, score) ==
  [i \in 1..Len(results) |->
     [id |-> results[i].id,
      project_id |-> results[i].project_id,
      title |-> results[i].title,
      updated_at |-> results[i].updated_at,
      score |-> score]]

\* a call of SQLiteAdapter.search: the engine runs the full-text statement
\* or raises on it (raises), and the catch block returns fallbackSearch;
\* the score of a full-text hit is the engine's rank, kept as 0 here
SQLiteSearchCall(query, projectId, limit, raises) ==
  /\ backend = "sqlite"
  /\ last' = [user |-> NULL, op |-> "search", id |-> 0, vid |-> 0,
              outcome |-> "ok", snapshot |-> 0,
              query |-> query, projectId |-> projectId, limit |-> limit,
              raised |-> raises,
              results |->
                IF raises
                THEN WithScore(fallbackSearchLimited(query, projectId, limit),
                               1)
                ELSE WithScore(SQLiteSearchLimited(query, projectId, limit),
                               0)]
  /\ ReadOnly

\* SupabaseAdapter.search of tenant userId; a call that throws returns
\* nothing
SupabaseSearch(userId, query, projectId) ==
  LET pattern == ILikePattern(EscapeLike(Chars(query)))
      projectIds ==
        IF projectId # None
        THEN {p \in DOMAIN projects :
                p = projectId[1] /\ projects[p].user_id = userId}
        ELSE {p \in DOMAIN projects : projects[p].user_id = userId}
  IN  IF projectIds = {} THEN <<>>
      ELSE MapResults(OrderByUpdatedDesc(
             {id \in DOMAIN artifacts :
                /\ artifacts[id].project_id \in projectIds
                /\ artifacts[id].archived_at = NullTime
                /\ \/ LikeMatches(artifacts[id].title, pattern)
                   \/ LikeMatches(artifacts[id].content, pattern)},
             DefaultSearchLimit))

(* ------------------- projects: update and projectSave ------------------ *)

\* UNIQUE (name COLLATE NOCASE) on projects, for a row that is rewritten
\* under key id
NameTakenByOther(id, name) ==
  \E k \in DOMAIN projects :
    k # id /\ NOCASE(projects[k].name) = NOCASE(name)

\* the row a project update writes
ProjectUpdatedRow(row, data) ==
  [row EXCEPT
     !.name = IF data.name # UNDEF THEN data.name ELSE @,
     !.description = IF data.description # UNDEF THEN data.description ELSE @,
     !.updated_at = now]

\* SQLiteProjectStorage.update
SQLiteProjectUpdate(id, data) ==
  /\ backend = "sqlite"
  /\ IF id \notin DOMAIN projects
     THEN /\ last' = Call("projects.update", id, 0, "NotFoundError", 0)
          /\ UNCHANGED projects
     ELSE IF data.name = UNDEF /\ data.description = UNDEF
     THEN /\ last' = Call("projects.update", id, 0, "ok", 0)
          /\ UNCHANGED projects
     ELSE IF data.name # UNDEF /\ NameTakenByOther(id, data.name)
     THEN /\ last' = Call("projects.update", id, 0, "SqliteError", 0)
          /\ UNCHANGED projects
     ELSE /\ projects' =
               [projects EXCEPT ![id] = ProjectUpdatedRow(@, data)]
          /\ last' = Call("projects.update", id, 0, "ok", 0)
  /\ UNCHANGED <<backend, schema, artifacts, artifact_versions, nextId, updateCalls>>

\* (variant: the lookup compares names byte by byte)
SQLiteProjectGetByName_CaseSensitive(name) ==
  {k \in DOMAIN projects : projects[k].name = name}

\* SQLiteProjectStorage.getByName: the keys of the rows the query selects
\* (the constraint leaves at most one)
SQLiteProjectGetByName(name) ==
  {k \in DOMAIN projects : NOCASE(projects[k].name) = NOCASE(name)}

\* projectSave on the embedded backend: the call ends with status
\* 'updated' or 'created', or with success false ("error") when the
\* storage call throws
SQLiteProjectSave(name, description) ==
  /\ backend = "sqlite"
  /\ IF SQLiteProjectGetByName(name) # {}
     THEN \E k \in SQLiteProjectGetByName(name) :
            /\ projects' =
                 IF description = UNDEF THEN projects
                 ELSE [projects EXCEPT ![k] =
                         ProjectUpdatedRow(@, [name |-> UNDEF,
                                               description |-> description])]
            /\ last' = Call("projectSave", k, 0, "updated", 0)
            /\ UNCHANGED nextId
     ELSE IF NameTaken(name)
     THEN /\ last' = Call("projectSave", 0, 0, "error", 0)
          /\ UNCHANGED <<projects, nextId>>
     ELSE /\ nextId' = nextId + 1
          /\ projects' = WithRow(projects,
                           [id |-> nextId, name |-> name, user_id |-> NULL,
                            description |->
                              IF description = UNDEF THEN NULL
                              ELSE description,
                            created_at |-> now, updated_at |-> now])
          /\ last' = Call("projectSave", nextId, 0, "created", 0)
  /\ UNCHANGED <<backend, schema, artifacts, artifact_versions, updateCalls>>

\* SupabaseProjectStorage.get: TRUE when it returns a row
SupabaseProjectGet(userId, id) ==
  /\ id \in DOMAIN projects
  /\ projects[id].user_id = userId

\* name ilike pattern: the whole name matches the pattern, ignoring case
ILikeWhole(text, pattern) ==
  LET t == Lower(Chars(text))
  IN  /\ Len(t) = Len(pattern)
      /\ \A k \in 1..Len(pattern) : pattern[k].any \/ pattern[k].ch = t[k]

\* SupabaseProjectStorage.getByName: the keys of the rows the query can
\* return (limit 1 without an ORDER BY returns any one of them)
SupabaseProjectGetByName(userId, name) ==
  {k \in DOMAIN projects :
     /\ projects[k].user_id = userId
     /\ ILikeWhole(projects[k].name, ILikePattern(Chars(name)))}

\* SupabaseProjectStorage.create when the database answers the insert with
\* an error: the tenant has a row of that name, ignoring case, and the
\* hosted schema rejects it
SupabaseProjectCreateRejected(userId, name) ==
  /\ backend = "supabase"
  /\ SupabaseProjectGetByName(userId, name) # {}
  /\ last' = CallAs(userId, "projects.create", 0, 0, "Error", 0)
  /\ UNCHANGED <<backend, schema, projects, artifacts, artifact_versions, nextId,
                 updateCalls>>

\* SupabaseProjectStorage.update
SupabaseProjectUpdate(userId, id, data) ==
  /\ backend = "supabase"
  /\ IF ~SupabaseProjectGet(userId, id)
     THEN /\ last' = CallAs(userId, "projects.update", id, 0, "Error", 0)
          /\ UNCHANGED projects
     ELSE /\ projects' =
               [projects EXCEPT ![id] = ProjectUpdatedRow(@, data)]
          /\ last' = CallAs(userId, "projects.update", id, 0, "ok", 0)
  /\ UNCHANGED <<backend, schema, artifacts, artifact_versions, nextId, updateCalls>>

\* projectSave on the hosted backend, for the adapter of tenant userId
SupabaseProjectSave(userId, name, description) ==
  /\ backend = "supabase"
  /\ IF SupabaseProjectGetByName(userId, name) # {}
     THEN \E k \in SupabaseProjectGetByName(userId, name) :
            /\ projects' =
                 [projects EXCEPT ![k] =
                    ProjectUpdatedRow(@, [name |-> UNDEF,
                                          description |-> description])]
            /\ last' = CallAs(userId, "projectSave", k, 0, "updated", 0)
            /\ UNCHANGED nextId
     ELSE /\ nextId' = nextId + 1
          /\ projects' = WithRow(projects,
                           [id |-> nextId, name |-> name, user_id |-> userId,
                            description |->
                              IF description = UNDEF THEN NULL
                              ELSE description,
                            created_at |-> now, updated_at |-> now])
          /\ last' = CallAs(userId, "projectSave", nextId, 0, "created", 0)
  /\ UNCHANGED <<backend, schema, artifacts, artifact_versions, updateCalls>>

(* ------------------ hosted backend: project-scoped calls --------------- *)

\* a call of SupabaseProjectStorage.get
SupabaseProjectGetCall(userId, id) ==
  /\ backend = "supabase"
  /\ last' = CallAs(userId, "projects.get", id, 0,
                    IF SupabaseProjectGet(userId, id) THEN "ok" ELSE "null", 0)
  /\ ReadOnly

\* a call of SupabaseProjectStorage.countArtifacts
SupabaseCountArtifactsCall(userId, id) ==
  /\ backend = "supabase"
  /\ last' = CallAs(userId, "countArtifacts", id, 0,
                    IF SupabaseProjectGet(userId, id) THEN "ok" ELSE "Error", 0)
  /\ ReadOnly

\* SupabaseArtifactStorage.getByTitle: the keys of the rows the query can
\* return
SupabaseGetByTitle(projectId, title) ==
  {k \in DOMAIN artifacts :
     /\ artifacts[k].project_id = projectId
     /\ artifacts[k].archived_at = NullTime
     /\ ILikeWhole(artifacts[k].title, ILikePattern(Chars(title)))}

\* a call of SupabaseArtifactStorage.getByTitle
SupabaseGetByTitleCall(userId, projectId, title) ==
  /\ backend = "supabase"
  /\ last' = CallAs(userId, "getByTitle", projectId, 0,
                    IF ~verifyProjectOwnership(userId, projectId) THEN "Error"
                    ELSE IF SupabaseGetByTitle(projectId, title) = {}
                    THEN "null" ELSE "ok", 0)
  /\ ReadOnly

\* a call of SupabaseArtifactStorage.list or listArchived
SupabaseListCall(userId, op, projectId) ==
  /\ backend = "supabase"
  /\ last' = CallAs(userId, op, projectId, 0,
                    IF verifyProjectOwnership(userId, projectId) THEN "ok"
                    ELSE "Error", 0)
  /\ ReadOnly

\* a call of SupabaseAdapter.search within a project
SupabaseSearchCall(userId, query, projectId) ==
  /\ backend = "supabase"
  /\ last' = CallAs(userId, "search", projectId, 0,
                    IF \E p \in DOMAIN projects :
                         p = projectId /\ projects[p].user_id = userId
                    THEN "ok" ELSE "Error", 0)
  /\ ReadOnly

\* a call of SupabaseAdapter.search over every project of the tenant
SupabaseSearchAllCall(userId, query) ==
  /\ backend = "supabase"
  /\ last' = CallAs(userId, "search.all", 0, 0, "ok", 0)
  /\ ReadOnly

(* ------------------------------ chunking ------------------------------- *)

\* the characters content is made of: a letter, the line break and the
\* characters of a sentence end
ContentChars == {"a", "\n", ".", " "}

\* content strings, as sequences of characters
ContentStrings == UNION {[1..n -> ContentChars] : n \in 0..MaxContentLen}

\* estimateJsonSize: JSON.stringify(content).length, two quotes and two
\* characters for a line break
RECURSIVE estimateJsonSize(_)
estimateJsonSize(content) ==
  IF content = <<>> THEN 2
  ELSE (IF content[1] = "\n" THEN 2 ELSE 1) + estimateJsonSize(Tail(content))

needsChunking(content) == estimateJsonSize(content) > MCP_SAFE_SIZE

\* the MD5 digest of content: equal content gives equal digests, and the
\* digests of the contents of a run differ from one another
md5(content) == <<"md5", content>>

\* String.prototype.lastIndexOf(pattern, from), positions counted from 0;
\* -1 when the pattern does not occur at or before from
lastIndexOf(str, pattern, from) ==
  LET upto == IF from < Len(str) - Len(pattern) THEN from
              ELSE Len(str) - Len(pattern)
      at == {i \in 0..upto : SubSeq(str, i + 1, i + Len(pattern)) = pattern}
  IN  IF at = {} THEN -1 ELSE CHOOSE i \in at : \A j \in at : j <= i

\* String.prototype.slice(from, to) and slice(from), positions counted
\* from 0
slice(str, from, to) == SubSeq(str, from + 1, IF to < Len(str) THEN to ELSE Len(str))

\* (variant: the remainder starts one character late)
sliceFrom_SkipsOne(str, from) == SubSeq(str, from + 2, Len(str))

sliceFrom(str, from) == SubSeq(str, from + 1, Len(str))

Max3(a, b, c) ==
  IF a >= b /\ a >= c THEN a ELSE IF b >= c THEN b ELSE c

\* (variant: a break anywhere in the chunk is taken, also in its first half)
splitPoint_AnyBreak(remaining, chunkSize) ==
  LET paraBreak == lastIndexOf(remaining, <<"\n", "\n">>, chunkSize)
      lineBreak == lastIndexOf(remaining, <<"\n">>, chunkSize)
      sentenceEnd ==
        Max3(lastIndexOf(remaining, <<".", " ">>, chunkSize),
             lastIndexOf(remaining, <<"!", " ">>, chunkSize),
             lastIndexOf(remaining, <<"?", " ">>, chunkSize))
  IN  IF paraBreak >= 0 THEN paraBreak + 2
      ELSE IF lineBreak >= 0 THEN lineBreak + 1
      ELSE IF sentenceEnd >= 0 THEN sentenceEnd + 2
      ELSE chunkSize

\* (variant: a full stop ends a sentence without a space after it)
splitPoint_DotBreaks(remaining, chunkSize) ==
  LET paraBreak == lastIndexOf(remaining, <<"\n", "\n">>, chunkSize)
      lineBreak == lastIndexOf(remaining, <<"\n">>, chunkSize)
      sentenceEnd == lastIndexOf(remaining, <<".">>, chunkSize)
  IN  IF 2 * paraBreak > chunkSize THEN paraBreak + 2
      ELSE IF 2 * lineBreak > chunkSize THEN lineBreak + 1
      ELSE IF 2 * sentenceEnd > chunkSize THEN sentenceEnd + 1
      ELSE chunkSize

\* the split point chunkContent picks for a remainder longer than
\* chunkSize: after a paragraph break, a line break or a sentence end in
\* the second half of the chunk, else at chunkSize
splitPoint(remaining, chunkSize) ==
  LET paraBreak == lastIndexOf(remaining, <<"\n", "\n">>, chunkSize)
      lineBreak == lastIndexOf(remaining, <<"\n">>, chunkSize)
      sentenceEnd ==
        Max3(lastIndexOf(remaining, <<".", " ">>, chunkSize),
             lastIndexOf(remaining, <<"!", " ">>, chunkSize),
             lastIndexOf(remaining, <<"?", " ">>, chunkSize))
  IN  IF 2 * paraBreak > chunkSize THEN paraBreak + 2
      ELSE IF 2 * lineBreak > chunkSize THEN lineBreak + 1
      ELSE IF 2 * sentenceEnd > chunkSize THEN sentenceEnd + 2
      ELSE chunkSize

\* the loop of chunkContent: the chunks of what remains
RECURSIVE SplitLoop(_, _)
SplitLoop(remaining, chunkSize) ==
  IF remaining = <<>> THEN <<>>
  ELSE IF Len(remaining) <= chunkSize THEN <<remaining>>
  ELSE LET at == splitPoint(remaining, chunkSize)
       IN  <<slice(remaining, 0, at)>>
             \o SplitLoop(sliceFrom(remaining, at), chunkSize)

\* (variant: content below the safe size is split as well)
chunkContent_AlwaysSplits(content, chunkSize) ==
  LET chunks == SplitLoop(content, chunkSize)
  IN  [chunks |-> chunks, totalSize |-> Len(content),
       chunkCount |-> Len(chunks), checksum |-> md5(content)]

chunkContent(content, chunkSize) ==
  LET chunks == IF ~needsChunking(content) THEN <<content>>
                ELSE SplitLoop(content, chunkSize)
  IN  [chunks |-> chunks, totalSize |-> Len(content),
       chunkCount |-> Len(chunks), checksum |-> md5(content)]

\* chunks.join('')
RECURSIVE join(_)
join(chunks) ==
  IF chunks = <<>> THEN <<>> ELSE chunks[1] \o join(Tail(chunks))

\* no checksum argument
NoChecksum == <<>>

\* a checksum that is not the digest of any content
InvalidChecksum == <<"invalid">>

\* the empty string handed over as checksum
EmptyChecksum == <<"">>

\* if (checksum): undefined and the empty string are falsy
Truthy(checksum) == checksum \notin {NoChecksum, EmptyChecksum}

\* reassembleChunks: the content, or the error it throws
reassembleChunks(chunks, checksum) ==
  LET content == join(chunks)
  IN  IF Truthy(checksum) /\ md5(content) # checksum
      THEN [outcome |-> "Error", content |-> <<>>]
      ELSE [outcome |-> "ok", content |-> content]

\* a call of chunkContent on the content and chunk size the run starts with
ChunkContentCall ==
  /\ last.op = "input"
  /\ last' = [op |-> "chunkContent", outcome |-> "ok",
              content |-> last.content, chunkSize |-> last.chunkSize,
              chunked |-> chunkContent(last.content, last.chunkSize)]
  /\ ReadOnly

\* the loop of chunkContent, one iteration at a time: the call starts,
\* returning at once when the content needs no chunking
ChunkStart ==
  /\ last.op = "input"
  /\ last' =
       IF ~needsChunking(last.content)
       THEN [op |-> "chunkContent", outcome |-> "ok",
             content |-> last.content, chunkSize |-> last.chunkSize,
             chunked |-> [chunks |-> <<last.content>>,
                          totalSize |-> Len(last.content),
                          chunkCount |-> 1,
                          checksum |-> md5(last.content)]]
       ELSE [op |-> "chunkContent.loop", outcome |-> "ok",
             content |-> last.content, chunkSize |-> last.chunkSize,
             remaining |-> last.content, chunks |-> <<>>]
  /\ ReadOnly

\* the record chunkContent returns after the loop
ChunkReturned(call, chunks) ==
  [op |-> "chunkContent", outcome |-> "ok",
   content |-> call.content, chunkSize |-> call.chunkSize,
   chunked |-> [chunks |-> chunks, totalSize |-> Len(call.content),
                chunkCount |-> Len(chunks), checksum |-> md5(call.content)]]

\* one iteration of while (remaining): the rest is pushed and the loop
\* left, or a chunk is cut off at the split point
ChunkIterate ==
  /\ last.op = "chunkContent.loop"
  /\ last.remaining # <<>>
  /\ last' =
       IF Len(last.remaining) <= last.chunkSize
       THEN ChunkReturned(last, Append(last.chunks, last.remaining))
       ELSE LET at == splitPoint(last.remaining, last.chunkSize)
            IN  [last EXCEPT
                   !.chunks = Append(@, slice(last.remaining, 0, at)),
                   !.remaining = sliceFrom(@, at)]
  /\ ReadOnly

\* the loop ends because nothing remains
ChunkLoopEnd ==
  /\ last.op = "chunkContent.loop"
  /\ last.remaining = <<>>
  /\ last' = ChunkReturned(last, last.chunks)
  /\ ReadOnly

\* a call of reassembleChunks on the chunks of the last chunkContent call
ReassembleCall(checksum) ==
  /\ last.op = "chunkContent"
  /\ LET r == reassembleChunks(last.chunked.chunks, checksum)
     IN  last' = [op |-> "reassembleChunks", outcome |-> r.outcome,
                  content |-> last.content, chunkSize |-> last.chunkSize,
                  chunked |-> last.chunked, checksum |-> checksum,
                  result |-> r.content]
  /\ ReadOnly

(* ------------------------------ inputs --------------------------------- *)

\* an identifier that was never handed out
UnknownId == 0

\* identifiers a caller can pass for a project, an artifact, a snapshot: the
\* keys of the table, and one identifier the table does not hold
ProjectIds == DOMAIN projects \cup {UnknownId}

ArtifactIds == DOMAIN artifacts \cup {UnknownId}

VersionIds ==
  {artifact_versions[i].id : i \in 1..Len(artifact_versions)} \cup {UnknownId}

\* create payloads: the required fields alone, or every optional field too
CreateInputs ==
  {[project_id |-> p, title |-> "Doc", artifact_type |-> "document",
    content |-> "A", summary |-> UNDEF, priority |-> UNDEF, tags |-> None] :
     p \in ProjectIds}
  \cup
  {[project_id |-> p, title |-> "Notes", artifact_type |-> "code",
    content |-> "B", summary |-> "s", priority |-> "core",
    tags |-> Some(<<"t">>)] :
     p \in ProjectIds}

NoPatch ==
  [title |-> UNDEF, content |-> UNDEF, summary |-> UNDEF, priority |-> UNDEF,
   tags |-> None]

\* update payloads: no field, the content, the title, the three other fields,
\* every field
UpdateInputs ==
  {NoPatch}
  \cup {[NoPatch EXCEPT !.content = c] : c \in {"B", "C"}}
  \cup {[NoPatch EXCEPT !.title = "Notes"]}
  \cup {[NoPatch EXCEPT !.summary = "s2", !.priority = "reference",
                        !.tags = Some(<<"t", "u">>)]}
  \cup {[title |-> "doc", content |-> "C", summary |-> NULL,
         priority |-> "core", tags |-> Some(<<>>)]}

(* --------------------------- specification ----------------------------- *)

Init ==
  /\ backend \in {"sqlite"}
  /\ schema = Migrated
  /\ projects = <<>>
  /\ artifacts = <<>>
  /\ artifact_versions = <<>>
  /\ nextId = 1
  /\ updateCalls = <<>>
  /\ last = Call("initialize", 0, 0, "ok", 0)

Next ==
  \/ /\ nextId <= MaxIds
     /\ \/ \E name \in ProjectNames : SQLiteProjectCreate(name)
        \/ \E id \in ProjectIds : SQLiteProjectDelete(id)
        \/ \E data \in CreateInputs : SQLiteCreate(data)
        \/ \E id \in ArtifactIds, data \in UpdateInputs : SQLiteUpdate(id, data)
        \/ \E id \in ArtifactIds : SQLiteArchive(id)
        \/ \E id \in ArtifactIds : SQLiteRestore(id)
        \/ \E id \in ArtifactIds, vid \in VersionIds : SQLiteRollback(id, vid)

Spec == Init /\ [][Next]_vars

\* the hosted adapter, serving the tenants one call at a time

InitHosted ==
  /\ backend = "supabase"
  /\ schema = EmptyDatabase
  /\ projects = <<>>
  /\ artifacts = <<>>
  /\ artifact_versions = <<>>
  /\ nextId = 1
  /\ updateCalls = <<>>
  /\ last = Call("initialize", 0, 0, "ok", 0)

NextHosted ==
  /\ nextId <= MaxHostedIds
  /\ now <= MaxStamp
  /\ \/ \E u \in Tenants, name \in {"P"} : SupabaseProjectCreate(u, name)
     \/ \E u \in Tenants, data \in CreateInputs : SupabaseCreate(u, data)
     \/ \E u \in Tenants, id \in ArtifactIds, data \in UpdateInputs :
          SupabaseUpdate(u, id, data)
     \/ \E u \in Tenants, id \in ArtifactIds : SupabaseArchive(u, id)
     \/ \E u \in Tenants, id \in ArtifactIds : SupabaseRestore(u, id)
     \/ \E u \in Tenants, id \in ArtifactIds, vid \in VersionIds :
          SupabaseRollback(u, id, vid)

SpecHosted == InitHosted /\ [][NextHosted]_vars

\* either adapter, as the configuration selects it at start-up

InitBackends == Init \/ InitHosted

NextBackends == Next \/ NextHosted

SpecBackends == InitBackends /\ [][NextBackends]_vars

\* one artifact revised over and over: every update supplies content that
\* differs from the content it replaces, and nothing else is called

RevisionInputs(id) ==
  {[NoPatch EXCEPT !.content = c] :
     c \in {x \in Contents : id \in DOMAIN artifacts => x # artifacts[id].content}}

NextHistory ==
  /\ nextId <= MaxRevisions
  /\ \/ SQLiteProjectCreate("P")
     \/ \E data \in {d \in CreateInputs : d.title = "Doc"} : SQLiteCreate(data)
     \/ \E id \in DOMAIN artifacts : \E data \in RevisionInputs(id) :
          SQLiteUpdate(id, data)

SpecHistory == Init /\ [][NextHistory]_vars

\* either adapter, serving create and update calls only

NextUpdates ==
  /\ nextId <= MaxUpdateCalls
  /\ now <= MaxUpdateCalls
  /\ \/ SQLiteProjectCreate("P")
     \/ \E data \in CreateInputs : SQLiteCreate(data)
     \/ \E id \in ArtifactIds, data \in UpdateInputs : SQLiteUpdate(id, data)
     \/ \E u \in Tenants : SupabaseProjectCreate(u, "P")
     \/ \E u \in Tenants, data \in CreateInputs : SupabaseCreate(u, data)
     \/ \E u \in Tenants, id \in ArtifactIds, data \in UpdateInputs :
          SupabaseUpdate(u, id, data)

SpecUpdates == InitBackends /\ [][NextUpdates]_vars

\* either adapter, serving writes and reads of artifacts; updates supply
\* the content

ContentInputs == {[NoPatch EXCEPT !.content = c] : c \in {"B", "C"}}

NextCalls ==
  /\ nextId <= MaxCalls
  /\ now <= MaxCalls
  /\ \/ SQLiteProjectCreate("P")
     \/ \E data \in CreateInputs : SQLiteCreate(data)
     \/ \E id \in ArtifactIds, data \in ContentInputs : SQLiteUpdate(id, data)
     \/ \E id \in ArtifactIds : SQLiteArchive(id)
     \/ \E id \in ArtifactIds : SQLiteRestore(id)
     \/ \E id \in ArtifactIds, vid \in VersionIds : SQLiteRollback(id, vid)
     \/ \E id \in ArtifactIds : SQLiteGetCall(id)
     \/ \E vid \in VersionIds : SQLiteGetVersionCall(vid)
     \/ \E id \in ArtifactIds : SQLiteGetVersionsCall(id)
     \/ \E u \in Tenants : SupabaseProjectCreate(u, "P")
     \/ \E u \in Tenants, data \in CreateInputs : SupabaseCreate(u, data)
     \/ \E u \in Tenants, id \in ArtifactIds, data \in ContentInputs :
          SupabaseUpdate(u, id, data)
     \/ \E u \in Tenants, id \in ArtifactIds : SupabaseArchive(u, id)
     \/ \E u \in Tenants, id \in ArtifactIds : SupabaseRestore(u, id)
     \/ \E u \in Tenants, id \in ArtifactIds, vid \in VersionIds :
          SupabaseRollback(u, id, vid)
     \/ \E u \in Tenants, id \in ArtifactIds : SupabaseGetCall(u, id)
     \/ \E u \in Tenants, vid \in VersionIds : SupabaseGetVersionCall(u, vid)
     \/ \E u \in Tenants, id \in ArtifactIds : SupabaseGetVersionsCall(u, id)

SpecCalls == InitBackends /\ [][NextCalls]_vars

\* the embedded adapter with one project that is filled beyond one page of
\* list() and then cleared away: artifacts are created first, every second
\* one core; once the page is exceeded the most recently updated live
\* artifact can be archived and the most recently archived one restored, the
\* latter once

LiveRows == {r \in Rows(artifacts) : r.archived_at = NullTime}

ArchivedRows == {r \in Rows(artifacts) : r.archived_at # NullTime}

ListedInput ==
  [project_id |-> CHOOSE p \in ProjectIds : p \in DOMAIN projects \/ projects = <<>>,
   title |-> "note" \o ToString(nextId),
   artifact_type |-> "document",
   content |-> "A",
   summary |-> UNDEF,
   priority |-> IF nextId % 2 = 0 THEN "core" ELSE UNDEF,
   tags |-> None]

NextListing ==
  /\ nextId <= MaxListed
  /\ \/ /\ projects = <<>>
        /\ SQLiteProjectCreate("P")
     \/ /\ projects # <<>>
        /\ artifact_versions = <<>>
        /\ SQLiteCreate(ListedInput)
     \/ /\ Cardinality(DOMAIN artifacts) > DefaultListLimit
        /\ \E r \in LiveRows :
             /\ \A o \in LiveRows : o.updated_at <= r.updated_at
             /\ SQLiteArchive(r.id)
     \/ /\ \A i \in 1..Len(artifact_versions) :
             artifact_versions[i].change_source # "restore"
        /\ \E r \in ArchivedRows :
             /\ \A o \in ArchivedRows : o.archived_at <= r.archived_at
             /\ SQLiteRestore(r.id)

SpecListing == Init /\ [][NextListing]_vars

\* either adapter, serving the calls that decide what search returns:
\* projects and artifacts are created, archived and restored

NextSearch ==
  /\ nextId <= MaxSearchCalls
  /\ now <= MaxSearchCalls
  /\ \/ \E name \in ProjectNames : SQLiteProjectCreate(name)
     \/ \E data \in CreateInputs : SQLiteCreate(data)
     \/ \E id \in ArtifactIds : SQLiteArchive(id)
     \/ \E id \in ArtifactIds : SQLiteRestore(id)
     \/ \E u \in Tenants : SupabaseProjectCreate(u, "P")
     \/ \E u \in Tenants, data \in CreateInputs : SupabaseCreate(u, data)
     \/ \E u \in Tenants, id \in ArtifactIds : SupabaseArchive(u, id)
     \/ \E u \in Tenants, id \in ArtifactIds : SupabaseRestore(u, id)

SpecSearch == InitBackends /\ [][NextSearch]_vars

\* projects only: create, rename and projectSave on either backend, with
\* names that differ in letter case only

ProjectUpdateInputs ==
  {[name |-> "p", description |-> UNDEF],
   [name |-> UNDEF, description |-> "about"],
   [name |-> UNDEF, description |-> UNDEF]}

NextProjects ==
  /\ nextId <= MaxProjectCalls
  /\ now <= MaxProjectCalls
  /\ \/ \E name \in ProjectNames : SQLiteProjectCreate(name)
     \/ \E id \in ProjectIds, data \in ProjectUpdateInputs :
          SQLiteProjectUpdate(id, data)
     \/ \E name \in SavedNames, d \in Descriptions \cup {UNDEF} :
          SQLiteProjectSave(name, d)
     \/ \E u \in Tenants, name \in ProjectNames :
          SupabaseProjectCreate(u, name)
     \/ \E u \in Tenants, name \in ProjectNames :
          SupabaseProjectCreateRejected(u, name)
     \/ \E u \in Tenants, id \in ProjectIds, data \in ProjectUpdateInputs :
          SupabaseProjectUpdate(u, id, data)
     \/ \E u \in Tenants, name \in SavedNames, d \in Descriptions \cup {UNDEF} :
          SupabaseProjectSave(u, name, d)

SpecProjects == InitBackends /\ [][NextProjects]_vars

\* the embedded adapter with a process that can stop between the two
\* statements of a mutation and be started again

NextCrash ==
  /\ nextId <= MaxCrashIds
  /\ \/ SQLiteProjectCreate("P")
     \/ \E data \in CreateInputs : SQLiteCreate(data)
     \/ \E id \in ArtifactIds, data \in ContentInputs : SQLiteUpdate(id, data)
     \/ \E id \in ArtifactIds : SQLiteArchive(id)
     \/ \E id \in ArtifactIds : SQLiteRestore(id)
     \/ \E id \in ArtifactIds, vid \in VersionIds : SQLiteRollback(id, vid)
     \/ \E op \in {"update", "restore", "rollback"}, id \in ArtifactIds,
           vid \in VersionIds :
          SQLiteCrashAfterSaveVersion(op, id, vid)

SpecCrash == Init /\ [][NextCrash]_vars

\* projectSave calls started together on the embedded adapter (Promise.all):
\* a call runs up to its next await in one piece, and the pieces of the calls
\* interleave. The calls and the point each has reached are kept in the call
\* record.

\* the names the calls are started with
ConcurrentNames == {"P", "p", "Q", "Notes", "Doc"}

\* (variant: a call is handed an identifier that a stored project has)
generateId_Reused ==
  IF projects = <<>> THEN nextId ELSE CHOOSE k \in DOMAIN projects : TRUE

\* generateId: randomUUID(), an identifier no earlier call was handed
generateId == nextId

\* findSimilarProjects compares the names word by word and by containment,
\* skipping names equal up to letter case: none of ConcurrentNames contains
\* another one or shares a word with it
IsSimilar(name, projName) ==
  /\ NOCASE(projName) # NOCASE(name)
  /\ FALSE

findSimilarProjects(name) ==
  {k \in DOMAIN projects : IsSimilar(name, projects[k].name)}

InitConcurrent ==
  /\ backend = "sqlite"
  /\ schema = Migrated
  /\ projects = <<>>
  /\ artifacts = <<>>
  /\ artifact_versions = <<>>
  /\ nextId = 1
  /\ updateCalls = <<>>
  /\ \E names \in [1..MaxConcurrent -> ConcurrentNames] :
       last = [op |-> "projectSave.all", outcome |-> "pending",
               names |-> names,
               pc |-> [i \in 1..MaxConcurrent |-> "getByName"],
               existing |-> [i \in 1..MaxConcurrent |-> {}],
               similar |-> [i \in 1..MaxConcurrent |-> {}],
               results |-> [i \in 1..MaxConcurrent |->
                              [status |-> "pending", id |-> 0]],
               overlapped |-> FALSE]

\* the call has looked the name up and has not written yet
InFlight(i) == last.pc[i] \in {"findSimilar", "create", "update"}

Finished(results) ==
  IF \A i \in DOMAIN results : results[i].status # "pending"
  THEN "settled" ELSE "pending"

\* const existing = await ctx.storage.projects.getByName(name)
SaveGetByName(i) ==
  /\ last.op = "projectSave.all"
  /\ last.pc[i] = "getByName"
  /\ LET found == SQLiteProjectGetByName(last.names[i])
     IN  last' = [last EXCEPT
                    !.existing[i] = found,
                    !.pc[i] = IF found = {} THEN "findSimilar" ELSE "update"]
  /\ ReadOnly

\* existing ? [] : await findSimilarProjects(ctx.storage, name)
SaveFindSimilar(i) ==
  /\ last.op = "projectSave.all"
  /\ last.pc[i] = "findSimilar"
  /\ last' = [last EXCEPT
                !.similar[i] = findSimilarProjects(last.names[i]),
                !.pc[i] = "create"]
  /\ ReadOnly

\* project = await ctx.storage.projects.create({name, ...}); an error of the
\* INSERT is caught and returned as success: false
SaveCreate(i) ==
  /\ last.op = "projectSave.all"
  /\ last.pc[i] = "create"
  /\ LET name == last.names[i]
         id == generateId
         rejected == NameTaken(name) \/ id \in DOMAIN projects
         results == [last.results EXCEPT ![i] =
                       IF rejected THEN [status |-> "error", id |-> 0]
                       ELSE [status |-> "created", id |-> id]]
     IN  /\ projects' =
              IF rejected THEN projects
              ELSE WithRow(projects,
                     [id |-> id, name |-> name, user_id |-> NULL,
                      description |-> NULL,
                      created_at |-> now, updated_at |-> now])
         /\ last' = [last EXCEPT
                       !.results = results,
                       !.pc[i] = "done",
                       !.outcome = Finished(results),
                       !.overlapped =
                         @ \/ \E j \in DOMAIN last.pc : j # i /\ InFlight(j)]
  /\ nextId' = nextId + 1
  /\ UNCHANGED <<backend, schema, artifacts, artifact_versions, updateCalls>>

\* project = await ctx.storage.projects.update(existing.id, {}) with no
\* field given: the row is returned as it is
SaveUpdate(i) ==
  /\ last.op = "projectSave.all"
  /\ last.pc[i] = "update"
  /\ \E k \in last.existing[i] :
       LET results == [last.results EXCEPT ![i] =
                         IF k \in DOMAIN projects
                         THEN [status |-> "updated", id |-> k]
                         ELSE [status |-> "error", id |-> 0]]
       IN  last' = [last EXCEPT
                      !.results = results,
                      !.pc[i] = "done",
                      !.outcome = Finished(results)]
  /\ ReadOnly

NextConcurrent ==
  \/ \E i \in 1..MaxConcurrent : SaveGetByName(i)
  \/ \E i \in 1..MaxConcurrent : SaveFindSimilar(i)
  \/ \E i \in 1..MaxConcurrent : SaveCreate(i)
  \/ \E i \in 1..MaxConcurrent : SaveUpdate(i)

SpecConcurrent == InitConcurrent /\ [][NextConcurrent]_vars

\* the embedded adapter serving searches whose full-text statement may
\* raise: two projects, artifacts that are created, given another summary
\* and archived

\* the limits a search is called with
SearchLimits == {None, Some(1)}

SummaryInputs == {[NoPatch EXCEPT !.summary = "s2"]}

NextFallback ==
  \/ /\ nextId <= MaxFallbackCalls
     /\ now <= MaxFallbackCalls
     /\ \/ \E name \in ProjectNames : SQLiteProjectCreate(name)
        \/ \E data \in CreateInputs : SQLiteCreate(data)
        \/ \E id \in ArtifactIds, data \in SummaryInputs :
             SQLiteUpdate(id, data)
        \/ \E id \in ArtifactIds : SQLiteArchive(id)
  \/ \E query \in Queries, projectId \in {None} \cup {Some(p) : p \in ProjectIds},
        limit \in SearchLimits, raises \in BOOLEAN :
       SQLiteSearchCall(query, projectId, limit, raises)

SpecFallback == Init /\ [][NextFallback]_vars

\* the embedded adapter on a database file that starts empty: initialize is
\* called at any time, the other calls once the tables exist

InitFresh ==
  /\ backend = "sqlite"
  /\ schema = EmptyDatabase
  /\ projects = <<>>
  /\ artifacts = <<>>
  /\ artifact_versions = <<>>
  /\ nextId = 1
  /\ updateCalls = <<>>
  /\ last = [user |-> NULL, op |-> "constructor", id |-> 0, vid |-> 0,
             outcome |-> "ok", snapshot |-> 0, applied |-> <<>>]

NextInitialize ==
  \/ SQLiteInitialize
  \/ /\ SchemaObjects \subseteq schema.objects
     /\ nextId <= MaxInitIds
     /\ \/ SQLiteProjectCreate("P")
        \/ \E data \in CreateInputs : SQLiteCreate(data)
        \/ \E id \in ArtifactIds, data \in ContentInputs : SQLiteUpdate(id, data)
        \/ \E id \in ArtifactIds : SQLiteArchive(id)

SpecInitialize == InitFresh /\ [][NextInitialize]_vars

\* either adapter serving lookups by name and by title, with names and
\* titles that hold the wildcard characters of LIKE

\* names projects are stored under, and names and titles looked up
StoredNames == {"P", "s2"}

LookupNames == {"p", "s2", "s_"}

LookupTitles == {"doc", "Notes", "Do_"}

\* the record of a lookup: id is the row returned (0 when none), arg the
\* name or title asked for
Lookup(user, op, found, arg) ==
  [user |-> user, op |-> op, id |-> found, vid |-> 0,
   outcome |-> IF found = 0 THEN "null" ELSE "ok", snapshot |-> 0,
   arg |-> arg]

\* SQLiteArtifactStorage.getByTitle: title = ? COLLATE NOCASE
SQLiteGetByTitle(projectId, title) ==
  {k \in DOMAIN artifacts :
     /\ artifacts[k].project_id = projectId
     /\ NOCASE(artifacts[k].title) = NOCASE(title)}

\* a call of SQLiteProjectStorage.getByName
SQLiteProjectGetByNameCall(name) ==
  /\ backend = "sqlite"
  /\ \E found \in IF SQLiteProjectGetByName(name) = {} THEN {0}
                   ELSE SQLiteProjectGetByName(name) :
       last' = Lookup(NULL, "projects.getByName", found, name)
  /\ ReadOnly

\* a call of SQLiteArtifactStorage.getByTitle
SQLiteGetByTitleCall(projectId, title) ==
  /\ backend = "sqlite"
  /\ \E found \in IF SQLiteGetByTitle(projectId, title) = {} THEN {0}
                   ELSE SQLiteGetByTitle(projectId, title) :
       last' = Lookup(NULL, "artifacts.getByTitle", found, title)
  /\ ReadOnly

\* a call of SupabaseProjectStorage.getByName: limit(1) returns any one of
\* the rows the pattern matches
SupabaseProjectGetByNameCall(userId, name) ==
  /\ backend = "supabase"
  /\ \E found \in IF SupabaseProjectGetByName(userId, name) = {} THEN {0}
                   ELSE SupabaseProjectGetByName(userId, name) :
       last' = Lookup(userId, "projects.getByName", found, name)
  /\ ReadOnly

\* a call of SupabaseArtifactStorage.getByTitle: an Error for a project
\* that is not the caller's, else any one of the rows the pattern matches
SupabaseGetByTitleLookup(userId, projectId, title) ==
  /\ backend = "supabase"
  /\ IF ~verifyProjectOwnership(userId, projectId)
     THEN last' = [Lookup(userId, "artifacts.getByTitle", 0, title)
                     EXCEPT !.outcome = "Error"]
     ELSE \E found \in IF SupabaseGetByTitle(projectId, title) = {} THEN {0}
                        ELSE SupabaseGetByTitle(projectId, title) :
            last' = Lookup(userId, "artifacts.getByTitle", found, title)
  /\ ReadOnly

NextLookup ==
  \/ /\ nextId <= MaxLookupIds
     /\ \/ \E name \in StoredNames : SQLiteProjectCreate(name)
        \/ \E data \in CreateInputs : SQLiteCreate(data)
        \/ \E u \in Tenants, name \in StoredNames :
             SupabaseProjectCreate(u, name)
        \/ \E u \in Tenants, data \in CreateInputs : SupabaseCreate(u, data)
  \/ \E name \in LookupNames : SQLiteProjectGetByNameCall(name)
  \/ \E p \in ProjectIds, title \in LookupTitles :
       SQLiteGetByTitleCall(p, title)
  \/ \E u \in Tenants, name \in LookupNames :
       SupabaseProjectGetByNameCall(u, name)
  \/ \E u \in Tenants, p \in ProjectIds, title \in LookupTitles :
       SupabaseGetByTitleLookup(u, p, title)

SpecLookup == InitBackends /\ [][NextLookup]_vars

\* the artifactSave tool on the embedded adapter: content above the safe
\* size is stored as parts and an index, other content is created or, when
\* getByTitle finds the name, written over the artifact found

\* (variant: the parts are numbered from 0)
chunkName_FromZero(name, i) == name \o "_part_" \o ToString(i - 1)

\* `${name}_part_${i + 1}` for the i-th chunk, counted from 1 here
chunkName(name, i) == name \o "_part_" \o ToString(i)

indexName(name) == name \o "_index"

\* createChunkIndex: the lines of the index document, as the values
\* written into them: title, total size, checksum, part count, then the
\* part names in order
createChunkIndex(name, chunked, artifactNames) ==
  <<"#", name, "Total Size", chunked.totalSize, "Checksum",
    chunked.checksum, "Parts", chunked.chunkCount>> \o artifactNames

\* the rows artifacts.create is called with for the chunks, in order;
\* an empty chunk is skipped
PartInputs(project_id, name, chunked) ==
  LET kept == SelectSeq([i \in 1..Len(chunked.chunks) |-> i],
                        LAMBDA i : chunked.chunks[i] # <<>>)
  IN  [n \in 1..Len(kept) |->
         [project_id |-> project_id,
          title |-> chunkName(name, kept[n]),
          artifact_type |-> "document",
          content |-> chunked.chunks[kept[n]],
          summary |-> "Part " \o ToString(kept[n]) \o " of "
                        \o ToString(chunked.chunkCount) \o " - " \o name,
          priority |-> "normal",
          tags |-> Some(<<"chunked-part">>)]]

IndexInput(project_id, name, chunked, artifactNames) ==
  [project_id |-> project_id,
   title |-> indexName(name),
   artifact_type |-> "document",
   content |-> createChunkIndex(name, chunked, artifactNames),
   summary |-> "Index for chunked document: " \o name,
   priority |-> "core",
   tags |-> Some(<<"chunked-index">>)]

\* the artifacts.create calls of one artifactSave, one after the other:
\* a call that violates the foreign key or the title constraint throws and
\* ends the save, the rows created before it stay
RECURSIVE CreateAll(_, _, _)
CreateAll(table, id, inputs) ==
  IF inputs = <<>> THEN [table |-> table, nextId |-> id, ok |-> TRUE]
  ELSE LET data == inputs[1]
           taken == \E k \in DOMAIN table :
                      /\ table[k].project_id = data.project_id
                      /\ NOCASE(table[k].title) = NOCASE(data.title)
       IN  IF data.project_id \notin DOMAIN projects \/ taken
           THEN [table |-> table, nextId |-> id, ok |-> FALSE]
           ELSE CreateAll(WithRow(table,
                            NewArtifactRow(id, data,
                                           JSONStringify(data.tags[1]))),
                          id + 1, Tail(inputs))

\* the row update writes for {content}: summary, priority and tags are
\* undefined in the payload and stay
ContentUpdatedRow(row, content) ==
  [row EXCEPT !.content = content, !.version = @ + 1, !.updated_at = now]

\* what artifactSave returns, with its arguments
SaveResult(project_id, name, content, id, outcome, status, chunked) ==
  [user |-> NULL, op |-> "artifactSave", id |-> id, vid |-> 0,
   outcome |-> outcome, snapshot |-> 0,
   project_id |-> project_id, name |-> name, content |-> content,
   status |-> status, chunked |-> chunked,
   chunk_count |-> IF chunked THEN chunkContent(content, MCP_CHUNK_SIZE).chunkCount
                   ELSE 0,
   checksum |-> IF chunked THEN chunkContent(content, MCP_CHUNK_SIZE).checksum
                ELSE NoChecksum]

\* the ledger of update calls after a save that created the rows of after
\* and wrote over the artifact written (a set of at most one identifier)
SaveLedger(after, written) ==
  [k \in (DOMAIN updateCalls) \cup (DOMAIN after) |->
     IF k \notin DOMAIN updateCalls THEN 0
     ELSE IF k \in written /\ updateCalls[k] >= 0 THEN updateCalls[k] + 1
     ELSE updateCalls[k]]

\* artifactSave with a valid type and no summary, priority or tags
artifactSave(project_id, name, content) ==
  /\ backend = "sqlite"
  /\ LET existing == SQLiteGetByTitle(project_id, name)
     IN  IF needsChunking(content)
         THEN LET chunked == chunkContent(content, MCP_CHUNK_SIZE)
                  parts == PartInputs(project_id, name, chunked)
                  names == [n \in 1..Len(parts) |-> parts[n].title]
                  done == CreateAll(artifacts, nextId,
                            Append(parts,
                                   IndexInput(project_id, name, chunked,
                                              names)))
              IN  /\ artifacts' = done.table
                  /\ nextId' = done.nextId
                  /\ updateCalls' = SaveLedger(done.table, {})
                  /\ last' = IF done.ok
                             THEN SaveResult(project_id, name, content,
                                             done.nextId - 1, "ok",
                                             "created", TRUE)
                             ELSE SaveResult(project_id, name, content, 0,
                                             "error", "none", FALSE)
                  /\ UNCHANGED artifact_versions
         ELSE IF existing # {}
         THEN \E id \in existing :
                /\ artifact_versions' = saveVersion(artifacts[id], "update")
                /\ nextId' = nextId + 1
                /\ artifacts' =
                     [artifacts EXCEPT ![id] = ContentUpdatedRow(@, content)]
                /\ updateCalls' = SaveLedger(artifacts, {id})
                /\ last' = SaveResult(project_id, name, content, id, "ok",
                                      "updated", FALSE)
         ELSE LET done == CreateAll(artifacts, nextId,
                            <<[project_id |-> project_id, title |-> name,
                               artifact_type |-> "document",
                               content |-> content, summary |-> UNDEF,
                               priority |-> "normal", tags |-> Some(<<>>)]>>)
              IN  /\ artifacts' = done.table
                  /\ nextId' = done.nextId
                  /\ updateCalls' = SaveLedger(done.table, {})
                  /\ last' = IF done.ok
                             THEN SaveResult(project_id, name, content,
                                             nextId, "ok", "created", FALSE)
                             ELSE SaveResult(project_id, name, content, 0,
                                             "error", "none", FALSE)
                  /\ UNCHANGED artifact_versions
  /\ UNCHANGED <<backend, schema, projects>>

\* the names and contents artifactSave is called with: one letter, or
\* MaxContentLen letters with at most one line break among them
SavedTitles == {"Doc", "doc"}

SavedContents ==
  {c \in [1..1 -> {"a"}] \cup [1..MaxContentLen -> {"a", "\n"}] :
     Cardinality({i \in 1..Len(c) : c[i] = "\n"}) <= 1}

NextSave ==
  /\ nextId <= MaxSaveIds
  /\ \/ SQLiteProjectCreate("P")
     \/ \E p \in ProjectIds, name \in SavedTitles, content \in SavedContents :
          artifactSave(p, name, content)
     \/ \E id \in ArtifactIds : SQLiteArchive(id)

SpecSave == Init /\ [][NextSave]_vars

\* the hosted adapter serving two tenants: every call of one tenant, with
\* the identifiers of its own rows, of the other tenant's rows, and unknown
\* ones

TenantCreateInputs == {data \in CreateInputs : data.title = "Doc"}

TenantUpdateInputs == {[NoPatch EXCEPT !.content = "B"]}

TenantProjectInputs == {[name |-> "p", description |-> UNDEF]}

NextTenants ==
  \E u \in Tenants :
    \/ /\ nextId <= MaxTenantCalls
       /\ now <= MaxTenantCalls
       /\ \/ SupabaseProjectCreate(u, "P")
          \/ \E data \in TenantCreateInputs : SupabaseCreate(u, data)
          \/ \E id \in ArtifactIds, data \in TenantUpdateInputs :
               SupabaseUpdate(u, id, data)
          \/ \E id \in ArtifactIds : SupabaseArchive(u, id)
          \/ \E id \in ArtifactIds : SupabaseRestore(u, id)
          \/ \E id \in ArtifactIds, vid \in VersionIds :
               SupabaseRollback(u, id, vid)
          \/ \E id \in ProjectIds, data \in TenantProjectInputs :
               SupabaseProjectUpdate(u, id, data)
    \/ \E id \in ArtifactIds : SupabaseGetCall(u, id)
    \/ \E vid \in VersionIds : SupabaseGetVersionCall(u, vid)
    \/ \E id \in ArtifactIds : SupabaseGetVersionsCall(u, id)
    \/ \E id \in ProjectIds : SupabaseProjectGetCall(u, id)
    \/ \E id \in ProjectIds : SupabaseCountArtifactsCall(u, id)
    \/ \E id \in ProjectIds : SupabaseGetByTitleCall(u, id, "doc")
    \/ \E id \in ProjectIds, op \in {"list", "listArchived"} :
         SupabaseListCall(u, op, id)
    \/ \E id \in ProjectIds : SupabaseSearchCall(u, "do", id)
    \/ SupabaseSearchAllCall(u, "do")

SpecTenants == InitHosted /\ [][NextTenants]_vars

\* chunking: contents chunked with a chunk size, then reassembled without
\* a checksum, with the checksum of the chunking, with a foreign one, or with an empty one

InitChunking ==
  /\ backend = "sqlite"
  /\ schema = Migrated
  /\ projects = <<>>
  /\ artifacts = <<>>
  /\ artifact_versions = <<>>
  /\ nextId = 1
  /\ updateCalls = <<>>
  /\ \E content \in ContentStrings, chunkSize \in 1..MaxChunkSize :
       last = [op |-> "input", outcome |-> "ok", content |-> content,
               chunkSize |-> chunkSize]

NextChunking ==
  \/ ChunkContentCall
  \/ ReassembleCall(NoChecksum)
  \/ ReassembleCall(last.chunked.checksum)
  \/ ReassembleCall(InvalidChecksum)
  \/ ReassembleCall(EmptyChecksum)
  \/ ReassembleCall(md5(Append(last.content, "a")))

SpecChunking == InitChunking /\ [][NextChunking]_vars

\* the loop of chunkContent step by step; the call runs on once started

NextChunkLoop ==
  \/ ChunkStart
  \/ ChunkIterate
  \/ ChunkLoopEnd

SpecChunkLoop ==
  InitChunking /\ [][NextChunkLoop]_vars /\ WF_vars(NextChunkLoop)

(* --------------------- hosted adapter: initialize ---------------------- *)

\* an API key handed to the adapter's constructor: a string of characters,
\* or no string at all
StringKey(text) == [type |-> "string", text |-> text]

CtxPrefix == <<"c", "t", "x", "_">>

\* the keys adapters are constructed with: the empty string, three keys
\* with the prefix that are in the key table, one that is not, a key
\* without the prefix whose hash is in the table, a proper prefix of the
\* prefix, and undefined
ApiKeys ==
  {StringKey(<<>>), StringKey(CtxPrefix \o <<"1">>),
   StringKey(CtxPrefix \o <<"2">>), StringKey(CtxPrefix \o <<"3">>),
   StringKey(CtxPrefix \o <<"9">>), StringKey(<<"k", "1">>),
   StringKey(<<"c", "t", "x">>), [type |-> "undefined", text |-> <<>>]}

\* String.prototype.startsWith
startsWith(str, prefix) ==
  /\ Len(str) >= Len(prefix)
  /\ SubSeq(str, 1, Len(prefix)) = prefix

\* hashApiKey: the SHA-256 digest of the key; equal keys give equal
\* digests and the digests of the keys of a run differ from one another
hashApiKey(text) == <<"sha256", text>>

\* the api_keys table the runs start with: key_hash is unique; the key of
\* u2 expires at time 2, the third key at time 1
InitialApiKeys ==
  {[key_hash |-> hashApiKey(CtxPrefix \o <<"1">>), user_id |-> "u1",
    expires_at |-> NullTime, last_used_at |-> NullTime],
   [key_hash |-> hashApiKey(CtxPrefix \o <<"2">>), user_id |-> "u2",
    expires_at |-> 2, last_used_at |-> NullTime],
   [key_hash |-> hashApiKey(CtxPrefix \o <<"3">>), user_id |-> "u1",
    expires_at |-> 1, last_used_at |-> NullTime],
   [key_hash |-> hashApiKey(<<"k", "1">>), user_id |-> "u2",
    expires_at |-> NullTime, last_used_at |-> NullTime]}

\* the rows .eq('key_hash', keyHash) selects
KeyRows(api_keys, keyHash) == {r \in api_keys : r.key_hash = keyHash}

\* (variant: the expiry of the key is not looked at)
validateApiKey_IgnoresExpiry(api_keys, apiKey, clock) ==
  IF apiKey.type # "string" \/ apiKey.text = <<>>
  THEN [outcome |-> "API key is required", user_id |-> NULL]
  ELSE IF ~startsWith(apiKey.text, CtxPrefix)
  THEN [outcome |-> "Invalid API key format", user_id |-> NULL]
  ELSE LET hits == KeyRows(api_keys, hashApiKey(apiKey.text))
       IN  IF Cardinality(hits) # 1
           THEN [outcome |-> "Invalid API key", user_id |-> NULL]
           ELSE LET data == CHOOSE r \in hits : TRUE
                IN  [outcome |-> "ok", user_id |-> data.user_id]

\* validateApiKey at time clock: the user id of the key, or the error
\* thrown; .single() gives an error unless exactly one row is selected
validateApiKey(api_keys, apiKey, clock) ==
  IF apiKey.type # "string" \/ apiKey.text = <<>>
  THEN [outcome |-> "API key is required", user_id |-> NULL]
  ELSE IF ~startsWith(apiKey.text, CtxPrefix)
  THEN [outcome |-> "Invalid API key format", user_id |-> NULL]
  ELSE LET hits == KeyRows(api_keys, hashApiKey(apiKey.text))
       IN  IF Cardinality(hits) # 1
           THEN [outcome |-> "Invalid API key", user_id |-> NULL]
           ELSE LET data == CHOOSE r \in hits : TRUE
                IN  IF data.expires_at # NullTime /\ data.expires_at < clock
                    THEN [outcome |-> "API key has expired",
                          user_id |-> NULL]
                    ELSE [outcome |-> "ok", user_id |-> data.user_id]

\* the update of last_used_at validateApiKey sends off for a valid key
TouchKey(api_keys, keyHash, clock) ==
  {IF r.key_hash = keyHash THEN [r EXCEPT !.last_used_at = clock] ELSE r :
     r \in api_keys}

\* the error of search on an adapter without a user id
NotInitialized == "Adapter not initialized. Call initialize() first."

\* SupabaseAdapter.initialize: validateApiKey throws before anything is
\* assigned; otherwise the user id is stored and both stores are created
\* with it
AdapterInitialize ==
  /\ backend = "supabase"
  /\ LET v == validateApiKey(last.api_keys, last.apiKey, last.clock)
     IN  last' =
           IF v.outcome # "ok"
           THEN [last EXCEPT !.op = "initialize", !.outcome = v.outcome,
                             !.results = <<>>]
           ELSE [last EXCEPT
                   !.op = "initialize", !.outcome = "ok", !.results = <<>>,
                   !.userId = v.user_id,
                   !.projectStore = [userId |-> v.user_id],
                   !.artifactStore = [userId |-> v.user_id],
                   !.api_keys = TouchKey(last.api_keys,
                                         hashApiKey(last.apiKey.text),
                                         last.clock)]
  /\ ReadOnly

\* SupabaseAdapter.search over every project of the tenant
AdapterSearch(query) ==
  /\ backend = "supabase"
  /\ last' =
       IF last.userId = NULL
       THEN [last EXCEPT !.op = "search", !.outcome = NotInitialized,
                         !.results = <<>>]
       ELSE [last EXCEPT !.op = "search", !.outcome = "ok",
                         !.results = SupabaseSearch(last.userId, query, None)]
  /\ ReadOnly

\* time passes
ClockTick ==
  /\ last.clock < MaxAuthClock
  /\ last' = [last EXCEPT !.op = "tick", !.outcome = "ok", !.results = <<>>,
                          !.clock = @ + 1]
  /\ ReadOnly

\* a key is deleted from the key table
KeyRevoked ==
  /\ \E r \in last.api_keys :
       last' = [last EXCEPT !.op = "revoke", !.outcome = "ok",
                            !.results = <<>>, !.api_keys = @ \ {r}]
  /\ ReadOnly

\* an adapter just constructed with one of the keys: no user id, no stores
InitAdapter ==
  /\ backend = "supabase"
  /\ schema = EmptyDatabase
  /\ projects = <<>>
  /\ artifacts = <<>>
  /\ artifact_versions = <<>>
  /\ nextId = 1
  /\ updateCalls = <<>>
  /\ \E apiKey \in ApiKeys :
       last = [op |-> "constructor", outcome |-> "ok", results |-> <<>>,
               apiKey |-> apiKey, userId |-> NULL, projectStore |-> UNDEF,
               artifactStore |-> UNDEF, api_keys |-> InitialApiKeys,
               clock |-> 1]

NextAdapter ==
  \/ AdapterInitialize
  \/ AdapterSearch("do")
  \/ ClockTick
  \/ KeyRevoked

SpecAdapter == InitAdapter /\ [][NextAdapter]_vars

(* ------------- hosted backend: interleaved update and rollback --------- *)

\* the calls of a run: update or rollback, each from the adapter of a tenant
RaceOps == {"update", "rollback"}

\* the payload of the update of caller i
RacePatch(i) == [NoPatch EXCEPT !.content = "edit" \o ToString(i)]

\* a project of u1 with one artifact at version 2 and the snapshot of its
\* version 1; MaxRaceCallers calls on the artifact are about to start
InitRace ==
  /\ backend = "supabase"
  /\ schema = EmptyDatabase
  /\ projects = 1 :> [id |-> 1, name |-> "P", user_id |-> "u1",
                      description |-> NULL, created_at |-> 1,
                      updated_at |-> 1]
  /\ artifacts = 2 :> [id |-> 2, project_id |-> 1, title |-> "Doc",
                       artifact_type |-> "document", content |-> "two",
                       summary |-> NULL, priority |-> "normal",
                       tags |-> <<>>, version |-> 2,
                       archived_at |-> NullTime, created_at |-> 1,
                       updated_at |-> 2]
  /\ artifact_versions =
       <<[id |-> 3, artifact_id |-> 2, version |-> 1, title |-> "Doc",
          content |-> "one", summary |-> NULL, priority |-> "normal",
          change_source |-> "update", created_at |-> 1]>>
  /\ nextId = 4
  /\ updateCalls = <<>>
  /\ \E ops \in [1..MaxRaceCallers -> RaceOps],
        users \in [1..MaxRaceCallers -> Tenants] :
       last = [op |-> "race", outcome |-> "pending", id |-> 2, vid |-> 3,
               initial |-> 2, ops |-> ops, users |-> users,
               pc |-> [i \in 1..MaxRaceCallers |->
                         IF ops[i] = "update" THEN "get" ELSE "getVersion"],
               version |-> [i \in 1..MaxRaceCallers |-> None],
               existing |-> [i \in 1..MaxRaceCallers |-> None],
               results |-> [i \in 1..MaxRaceCallers |-> "pending"],
               overlapped |-> FALSE]

\* rollback: const version = await this.getVersion(versionId), and the two
\* checks on it
RaceGetVersion(i) ==
  /\ last.op = "race"
  /\ last.pc[i] = "getVersion"
  /\ LET version == SupabaseGetVersion(last.users[i], last.vid)
     IN  last' =
           IF version = None \/ version[1].artifact_id # last.id
           THEN [last EXCEPT !.pc[i] = "done", !.results[i] = "Error"]
           ELSE [last EXCEPT !.pc[i] = "get", !.version[i] = version]
  /\ ReadOnly

\* update and rollback: const existing = await this.get(id)
RaceGet(i) ==
  /\ last.op = "race"
  /\ last.pc[i] = "get"
  /\ LET existing == SupabaseGet(last.users[i], last.id)
     IN  last' =
           IF existing = None
           THEN [last EXCEPT !.pc[i] = "done", !.results[i] = "Error"]
           ELSE [last EXCEPT
                   !.pc[i] = "write", !.existing[i] = existing,
                   !.overlapped =
                     @ \/ \E j \in DOMAIN last.pc :
                            j # i /\ last.pc[j] = "write"]
  /\ ReadOnly

\* the row caller i writes: the version is the one it read, plus one
RaceRow(i) ==
  IF last.ops[i] = "update"
  THEN SupabaseUpdatedRow(artifacts[last.id], last.existing[i][1],
                          RacePatch(i))
  ELSE SupabaseRolledBackRow(artifacts[last.id], last.version[i][1],
                             last.existing[i][1])

\* update and rollback: the UPDATE of the row, and the trigger's snapshot
RaceWrite(i) ==
  /\ last.op = "race"
  /\ last.pc[i] = "write"
  /\ artifacts' = [artifacts EXCEPT ![last.id] = RaceRow(i)]
  /\ \E table \in TriggerOutcomes(artifacts[last.id]) :
       /\ artifact_versions' = table
       /\ nextId' = IF table = artifact_versions THEN nextId ELSE nextId + 1
  /\ last' = [last EXCEPT !.pc[i] = "done", !.results[i] = "ok"]
  /\ UNCHANGED <<backend, schema, projects, updateCalls>>

NextRace ==
  \E i \in 1..MaxRaceCallers :
    \/ RaceGetVersion(i)
    \/ RaceGet(i)
    \/ RaceWrite(i)

SpecRace == InitRace /\ [][NextRace]_vars

(* ------------------------------ properties ----------------------------- *)

\* the stored snapshot with identifier vid
SnapshotRow(vid) ==
  LET hits == SelectSeq(artifact_versions, LAMBDA v : v.id = vid)
  IN  hits[1]

\* the snapshots of artifact id, oldest insert first
SnapshotsOf(id) == SelectSeq(artifact_versions, LAMBDA v : v.artifact_id = id)

\* the adapter that served a call of tenant `user` can see artifact id
Visible(user, id) ==
  /\ id \in DOMAIN artifacts
  /\ backend = "supabase" => projects[artifacts[id].project_id].user_id = user

\* title, content, summary, priority and tags of artifact id stay as they are
SameFields(id) ==
  /\ artifacts'[id].title = artifacts[id].title
  /\ artifacts'[id].content = artifacts[id].content
  /\ artifacts'[id].summary = artifacts[id].summary
  /\ artifacts'[id].priority = artifacts[id].priority
  /\ artifacts'[id].tags = artifacts[id].tags

\* the step appends exactly one snapshot: that of artifact id as it was
\* before the step, tagged tag
AppendsSnapshot(id, tag) ==
  /\ Len(artifact_versions') = Len(artifact_versions) + 1
  /\ SubSeq(artifact_versions', 1, Len(artifact_versions)) = artifact_versions
  /\ LET s == artifact_versions'[Len(artifact_versions')]
     IN  /\ s.artifact_id = id
         /\ s.version = artifacts[id].version
         /\ s.title = artifacts[id].title
         /\ s.content = artifacts[id].content
         /\ s.summary = artifacts[id].summary
         /\ s.priority = artifacts[id].priority
         /\ s.change_source = tag

Min(a, b) == IF a < b THEN a ELSE b

\* C1 (as amended): an artifact that has seen N successful content updates
\* since create and no other mutation is at version N+1 and has exactly N
\* snapshots, numbered 1..N; getVersions with its default limit returns the
\* min(N, 10) newest of them, newest first.
C1_UpdateHistory ==
  \A id \in DOMAIN artifacts :
    updateCalls[id] >= 0 =>
      LET N == updateCalls[id]
          all == SQLiteGetVersions(id, N + 1)
          page == SQLiteGetVersions(id, DefaultVersionLimit)
      IN  /\ artifacts[id].version = N + 1
          /\ Len(all) = N
          /\ \A i \in 1..N : all[i].version = N + 1 - i
          /\ Len(page) = Min(N, DefaultVersionLimit)
          /\ \A i \in 1..Len(page) : page[i].version = N + 1 - i

\* C1 (as claimed): after N successful content updates and no other
\* mutation, getVersions(id) returns exactly N entries, numbered 1..N, and
\* the artifact is at version N+1.
C1_AsClaimed ==
  \A id \in DOMAIN artifacts :
    updateCalls[id] >= 0 =>
      LET N == updateCalls[id]
          page == SQLiteGetVersions(id, DefaultVersionLimit)
      IN  /\ artifacts[id].version = N + 1
          /\ Len(page) = N
          /\ {page[i].version : i \in 1..Len(page)} = 1..N

\* C1 witness: an artifact updated more often than one page of getVersions
\* holds
C1_Witness ==
  \E id \in DOMAIN artifacts :
    /\ updateCalls[id] > DefaultVersionLimit
    /\ last.op = "update"
    /\ last.outcome = "ok"

\* C2: a rollback that succeeds leaves title, content and summary of the
\* artifact equal to those of the snapshot it named, and the version counter
\* exactly one above its value before the call, whatever happened since the
\* snapshot was written.
C2_RollbackRestoresSnapshot ==
  [][(last'.op = "rollback" /\ last'.outcome = "ok") =>
       LET id == last'.id
           k == SnapshotRow(last'.vid)
       IN  /\ k.artifact_id = id
           /\ artifacts'[id].title = k.title
           /\ artifacts'[id].content = k.content
           /\ artifacts'[id].summary = k.summary
           /\ artifacts'[id].version = artifacts[id].version + 1]_vars

\* C2 witness: content A, updated to B, then to C, rolled back to the
\* version-1 snapshot: content A at version 4
C2_Witness ==
  /\ last.op = "rollback"
  /\ last.outcome = "ok"
  /\ SnapshotRow(last.vid).version = 1
  /\ SnapshotRow(last.vid).content = "A"
  /\ artifacts[last.id].content = "A"
  /\ artifacts[last.id].version = 4
  /\ \E v \in {SnapshotsOf(last.id)[i] : i \in 1..Len(SnapshotsOf(last.id))} :
       v.content = "C"

\* C3: no call lowers the version counter of an artifact.
C3_VersionNeverDecreases ==
  [][\A id \in (DOMAIN artifacts) \cap (DOMAIN artifacts') :
       artifacts'[id].version >= artifacts[id].version]_vars

\* C3 witness: a rollback to a snapshot two or more versions back has run
C3_Witness ==
  /\ last.op = "rollback"
  /\ last.outcome = "ok"
  /\ SnapshotRow(last.vid).version + 2 < artifacts[last.id].version

\* C4: a snapshot, once written, stays in the history as written; it
\* disappears only in the call that deletes the project of its artifact.
C4_AppendOnly ==
  [][\A i \in 1..Len(artifact_versions) :
       LET v == artifact_versions[i]
       IN  \/ /\ i <= Len(artifact_versions')
              /\ artifact_versions'[i] = v
              /\ ~(last'.op = "projects.delete" /\ last'.outcome = "ok")
           \/ /\ last'.op = "projects.delete"
              /\ last'.outcome = "ok"
              /\ IF artifacts[v.artifact_id].project_id = last'.id
                 THEN /\ v.artifact_id \notin DOMAIN artifacts'
                      /\ \A j \in 1..Len(artifact_versions') :
                           artifact_versions'[j] # v
                 ELSE \E j \in 1..Len(artifact_versions') :
                           artifact_versions'[j] = v]_vars

\* C4 witness: a project was deleted and the snapshots of another project's
\* artifact are still there
C4_Witness ==
  /\ last.op = "projects.delete"
  /\ last.outcome = "ok"
  /\ Len(artifact_versions) > 0

\* C5: a step that writes a snapshot writes exactly one, for the artifact
\* the call names; it holds title, content, summary, priority and version
\* number of that artifact as they were before the step, and its tag is the
\* name of the operation.
C5_SnapshotIsPreState ==
  [][Len(artifact_versions') > Len(artifact_versions) =>
       /\ last'.op \in ChangeSources
       /\ last'.id \in DOMAIN artifacts
       /\ AppendsSnapshot(last'.id, last'.op)]_vars

\* C5 witness: snapshots tagged archive, restore and rollback exist, the
\* last one just written
C5_Witness ==
  /\ last.op = "rollback"
  /\ last.snapshot # 0
  /\ {"archive", "restore", "rollback"} \subseteq
       {artifact_versions[i].change_source : i \in 1..Len(artifact_versions)}

\* C6 (as claimed): no two snapshots of one artifact carry the same version
\* number.
C6_DistinctVersionNumbers ==
  \A i \in 1..Len(artifact_versions), j \in 1..Len(artifact_versions) :
    (/\ i # j
     /\ artifact_versions[i].artifact_id = artifact_versions[j].artifact_id)
      => artifact_versions[i].version # artifact_versions[j].version

C8_RestoreBumpsVersion ==
  [][(/\ last'.op = "restore"
      /\ Visible(last'.user, last'.id)
      /\ artifacts[last'.id].archived_at # NullTime) =>
       /\ last'.outcome = "ok"
       /\ artifacts'[last'.id].archived_at = NullTime
       /\ artifacts'[last'.id].version = artifacts[last'.id].version + 1
       /\ SameFields(last'.id)]_vars

\* C9: archive of an artifact that is already archived succeeds and changes
\* nothing: no row of any table changes and no snapshot is written.
C9_ArchiveIdempotent ==
  [][(/\ last'.op = "archive"
      /\ Visible(last'.user, last'.id)
      /\ artifacts[last'.id].archived_at # NullTime) =>
       /\ last'.outcome = "ok"
       /\ last'.snapshot = 0
       /\ UNCHANGED <<projects, artifacts, artifact_versions>>]_vars

\* C9 witness: archive was called on an archived artifact of the embedded
\* store, which already had its archive snapshot
C9_Witness ==
  /\ backend = "sqlite"
  /\ last.op = "archive"
  /\ last.outcome = "ok"
  /\ last.snapshot = 0
  /\ last.id \in DOMAIN artifacts
  /\ \E i \in 1..Len(artifact_versions) :
       /\ artifact_versions[i].artifact_id = last.id
       /\ artifact_versions[i].change_source = "archive"

\* C10: restore of an artifact that is not archived succeeds and changes
\* nothing: the version counter stays and no snapshot is written.
C10_RestoreNoOp ==
  [][(/\ last'.op = "restore"
      /\ Visible(last'.user, last'.id)
      /\ artifacts[last'.id].archived_at = NullTime) =>
       /\ last'.outcome = "ok"
       /\ last'.snapshot = 0
       /\ UNCHANGED <<projects, artifacts, artifact_versions>>]_vars

\* C10 witness: restore was called on an artifact of the embedded store
\* that is not archived and has a history
C10_Witness ==
  /\ backend = "sqlite"
  /\ last.op = "restore"
  /\ last.outcome = "ok"
  /\ last.snapshot = 0
  /\ last.id \in DOMAIN artifacts
  /\ artifacts[last.id].archived_at = NullTime
  /\ Len(SnapshotsOf(last.id)) > 0

\* the artifact a caller reads back from row: tags as a list
ReadBack(row) ==
  IF backend = "sqlite" THEN rowToArtifact(row) ELSE SupabaseRowToArtifact(row)

\* the step is an update call of artifact id with payload data, on either
\* backend
UpdateStep(id, data) ==
  \/ SQLiteUpdate(id, data)
  \/ \E u \in Tenants : SupabaseUpdate(u, id, data)

\* C11 (as claimed): update of an existing artifact with a payload that
\* supplies no field changes nothing: the version counter stays and no
\* snapshot is added.
C11_EmptyUpdateChangesNothing ==
  [][\A id \in DOMAIN artifacts :
       UpdateStep(id, NoPatch) =>
         /\ artifacts'[id].version = artifacts[id].version
         /\ artifact_versions' = artifact_versions]_vars

\* C12: after a successful update each of title, content, summary, priority
\* and tags holds the supplied value if the payload supplied one and its
\* value before the call otherwise; archived_at, project_id and
\* artifact_type stay as they are.
C12_UpdateIsFieldMerge ==
  [][\A id \in DOMAIN artifacts, data \in UpdateInputs :
       (last'.op = "update" /\ last'.outcome = "ok" /\ UpdateStep(id, data)) =>
         LET before == ReadBack(artifacts[id])
             after == ReadBack(artifacts'[id])
         IN  /\ after.title =
                  IF data.title # UNDEF THEN data.title ELSE before.title
             /\ after.content =
                  IF data.content # UNDEF THEN data.content ELSE before.content
             /\ after.summary =
                  IF data.summary # UNDEF THEN data.summary ELSE before.summary
             /\ after.priority =
                  IF data.priority # UNDEF THEN data.priority
                  ELSE before.priority
             /\ after.tags =
                  IF data.tags # None THEN data.tags[1] ELSE before.tags
             /\ after.archived_at = before.archived_at
             /\ after.project_id = before.project_id
             /\ after.artifact_type = before.artifact_type]_vars

\* C12 witness: an update that supplied only the content has run on an
\* artifact created with summary, priority and tags, which it still has
C12_Witness ==
  /\ last.op = "update"
  /\ last.outcome = "ok"
  /\ last.id \in DOMAIN artifacts
  /\ artifacts[last.id].content = "C"
  /\ artifacts[last.id].title = "Notes"
  /\ artifacts[last.id].summary = "s"
  /\ artifacts[last.id].priority = "core"
  /\ ReadBack(artifacts[last.id]).tags = <<"t">>
  /\ artifacts[last.id].version = 2

\* the identifiers of the stored snapshots
SnapshotIds == {artifact_versions[i].id : i \in 1..Len(artifact_versions)}

\* C13 (as claimed): rollback of an existing artifact to a snapshot that
\* exists but belongs to another artifact fails with the not-found error and
\* changes nothing: the artifact and both histories stay as they are.
C13_ForeignSnapshotNotFound ==
  [][(/\ last'.op = "rollback"
      /\ Visible(last'.user, last'.id)
      /\ last'.vid \in SnapshotIds
      /\ SnapshotRow(last'.vid).artifact_id # last'.id) =>
       /\ last'.outcome = "NotFoundError"
       /\ UNCHANGED <<projects, artifacts, artifact_versions>>]_vars

\* C14 (as claimed): update, archive, restore, rollback and getVersions of
\* an artifact id that does not exist, and rollback to a version id that
\* does not exist, fail with the typed NotFound error and change no stored
\* artifact or snapshot; get and getVersion of an unknown id return null.
C14_UnknownIdNotFound ==
  [][/\ (/\ last'.op \in {"update", "archive", "restore", "rollback",
                           "getVersions"}
         /\ last'.id \notin DOMAIN artifacts) =>
          /\ last'.outcome = "NotFoundError"
          /\ UNCHANGED <<projects, artifacts, artifact_versions>>
     /\ (last'.op = "rollback" /\ last'.vid \notin SnapshotIds) =>
          /\ last'.outcome = "NotFoundError"
          /\ UNCHANGED <<projects, artifacts, artifact_versions>>
     /\ (last'.op = "get" /\ last'.id \notin DOMAIN artifacts) =>
          last'.outcome = "null"
     /\ (last'.op = "getVersion" /\ last'.vid \notin SnapshotIds) =>
          last'.outcome = "null"]_vars

\* the identifiers a listing holds
ListedIds(listing) == {listing[i].id : i \in 1..Len(listing)}

\* the live artifacts of r's project that list() puts ahead of r
AheadInList(r) ==
  {o \in LiveRows : o.project_id = r.project_id /\ ListBefore(o, r)}

\* the archived artifacts of r's project archived later than r
ArchivedLater(r) ==
  {o \in ArchivedRows :
     o.project_id = r.project_id /\ o.archived_at > r.archived_at}

Scopes == {None} \cup {Some(p) : p \in DOMAIN projects}

\* the search paths of the current backend, each with the tenant it serves:
\* on the embedded backend the full-text statement and the fallback, on the
\* hosted backend one adapter per tenant
SearchPaths ==
  IF backend = "sqlite"
  THEN {[path |-> "fts", user |-> NULL], [path |-> "like", user |-> NULL]}
  ELSE {[path |-> "ilike", user |-> u] : u \in Tenants}

\* the artifacts a search for query within scope returns on path sp
Found(sp, query, scope) ==
  ListedIds(CASE sp.path = "fts" -> SQLiteSearch(query, scope)
              [] sp.path = "like" -> fallbackSearch(query, scope)
              [] sp.path = "ilike" -> SupabaseSearch(sp.user, query, scope))

\* the text of an artifacts row, or of a snapshot of one, matches query as
\* path sp matches
RowMatches(sp, row, query) ==
  CASE sp.path = "fts" ->
         \E term \in prepareFtsQuery(query) :
           \E tok \in Tokenize(row.title) \cup Tokenize(row.content)
                        \cup Tokenize(row.summary) :
             Len(term) <= Len(tok) /\ SubSeq(tok, 1, Len(term)) = term
    [] sp.path = "like" ->
         \E col \in {"title", "content", "summary"} :
           LikeMatches(row[col], LikePattern(Chars(query)))
    [] sp.path = "ilike" ->
         \E col \in {"title", "content"} :
           LikeMatches(row[col], ILikePattern(EscapeLike(Chars(query))))

\* C16: every result of a search, on the full-text path, the fallback path
\* and the hosted path, is an artifact that is not archived and, when a
\* project is given, belongs to it; an artifact that is not archived is
\* found by every query its text matches, and right after a restore the
\* artifact is found by every query that its text from before the restore
\* matches.
C16_SearchSkipsArchived ==
  \A query \in Queries, sp \in SearchPaths :
    /\ \A scope \in Scopes :
         \A id \in Found(sp, query, scope) :
           /\ id \in DOMAIN artifacts
           /\ artifacts[id].archived_at = NullTime
           /\ scope # None => artifacts[id].project_id = scope[1]
    /\ \A id \in DOMAIN artifacts :
         (/\ artifacts[id].archived_at = NullTime
          /\ Visible(sp.user, id)
          /\ RowMatches(sp, artifacts[id], query)) =>
           /\ id \in Found(sp, query, None)
           /\ id \in Found(sp, query, Some(artifacts[id].project_id))
    /\ (/\ last.op = "restore"
        /\ last.outcome = "ok"
        /\ last.snapshot # 0
        /\ Visible(sp.user, last.id)
        /\ RowMatches(sp, SnapshotRow(last.snapshot), query)) =>
         last.id \in Found(sp, query, None)

\* C16 witness: an artifact of the embedded store was archived and then
\* restored, and the full-text path and the fallback path find it again
C16_Witness ==
  /\ last.op = "restore"
  /\ last.outcome = "ok"
  /\ last.id \in DOMAIN artifacts
  /\ artifacts[last.id].archived_at = NullTime
  /\ artifacts[last.id].version > 1
  /\ last.id \in ListedIds(SQLiteSearch("do", None))
  /\ last.id \in ListedIds(fallbackSearch("OC", None))

\* C17: every artifact references an existing project and every snapshot
\* an existing artifact, and after a projects.delete that succeeded neither
\* the project nor an artifact with its id remains (so no snapshot of such
\* an artifact does either).
C17_OwnershipClosed ==
  /\ \A a \in DOMAIN artifacts : artifacts[a].project_id \in DOMAIN projects
  /\ \A i \in 1..Len(artifact_versions) :
       artifact_versions[i].artifact_id \in DOMAIN artifacts
  /\ (last.op = "projects.delete" /\ last.outcome = "ok") =>
       /\ last.id \notin DOMAIN projects
       /\ \A a \in DOMAIN artifacts : artifacts[a].project_id # last.id

\* C17 witness: a project delete succeeded, another project is still there,
\* and at least three stored rows (project, artifact, snapshot) are gone
C17_Witness ==
  /\ last.op = "projects.delete"
  /\ last.outcome = "ok"
  /\ DOMAIN projects # {}
  /\ artifact_versions = <<>>
  /\ Cardinality(DOMAIN projects) + Cardinality(DOMAIN artifacts) + 3
       <= nextId - 1

\* C19: no two artifacts of one project, archived or not, have titles that
\* are equal ignoring letter case; a create, update or rollback that would
\* make such a pair ends with the constraint error.
C19_TitlesUniqueInProject ==
  \A a \in DOMAIN artifacts, b \in DOMAIN artifacts :
    (a # b /\ artifacts[a].project_id = artifacts[b].project_id) =>
      NOCASE(artifacts[a].title) # NOCASE(artifacts[b].title)

\* C19 witness: a rollback to a snapshot whose title another artifact of the
\* project has taken meanwhile has failed
C19_Witness ==
  /\ last.op = "rollback"
  /\ last.outcome = "SqliteError"
  /\ \E a \in DOMAIN artifacts :
       /\ a # last.id
       /\ artifacts[a].project_id = artifacts[last.id].project_id
       /\ NOCASE(artifacts[a].title) = NOCASE(SnapshotRow(last.vid).title)

C20_ChunkingRoundTrips ==
  /\ last.op \in {"chunkContent", "reassembleChunks"} =>
       /\ last.chunked.chunkCount = Len(last.chunked.chunks)
       /\ last.chunked.totalSize = Len(last.content)
  /\ (/\ last.op = "reassembleChunks"
      /\ last.checksum \in {NoChecksum, last.chunked.checksum}) =>
       /\ last.outcome = "ok"
       /\ last.result = last.content

\* C20 witness: content that needs chunking was split in three or more
\* chunks, one of them after a paragraph break, and reassembled with the
\* checksum
C20_Witness ==
  /\ last.op = "reassembleChunks"
  /\ last.checksum = last.chunked.checksum
  /\ needsChunking(last.content)
  /\ last.chunked.chunkCount >= 3
  /\ LET first == last.chunked.chunks[1]
     IN  /\ Len(first) >= 3
         /\ SubSeq(first, Len(first) - 1, Len(first)) = <<"\n", "\n">>
  /\ last.outcome = "ok"

\* C21: for content whose serialized size is at most the safe size, the
\* empty string included, chunkContent returns exactly one part, the part
\* is the content, and chunkCount is 1.
C21_SmallContentIsOnePart ==
  (/\ last.op = "chunkContent"
   /\ estimateJsonSize(last.content) <= MCP_SAFE_SIZE) =>
    /\ last.chunked.chunks = <<last.content>>
    /\ last.chunked.chunkCount = 1

\* C21 witness: content below the safe size but longer than the chunk size
\* came back as one part
C21_Witness ==
  /\ last.op = "chunkContent"
  /\ estimateJsonSize(last.content) <= MCP_SAFE_SIZE
  /\ Len(last.content) > last.chunkSize
  /\ last.chunked.chunks = <<last.content>>

\* C22: reassembleChunks called with a supplied checksum that differs from
\* the digest of the joined parts ends with an error and returns no
\* content.
C22_WrongChecksumFails ==
  (/\ last.op = "reassembleChunks"
   /\ last.checksum # NoChecksum
   /\ last.checksum # md5(join(last.chunked.chunks))) =>
    /\ last.outcome = "Error"
    /\ last.result = <<>>

\* the content has no line break and no sentence end followed by a space
NoBreakPoints(content) ==
  /\ \A i \in 1..Len(content) : content[i] # "\n"
  /\ \A i \in 1..(Len(content) - 1) :
       ~(content[i] \in {".", "!", "?"} /\ content[i + 1] = " ")

\* C24: content that needs chunking and has no break points is cut every
\* chunkSize characters: ceil(length / chunkSize) parts, each but the last
\* exactly chunkSize long, the last not empty and at most chunkSize long,
\* and the parts joined are the content.
C24_HardCuts ==
  (/\ last.op = "chunkContent"
   /\ needsChunking(last.content)
   /\ NoBreakPoints(last.content)) =>
    LET parts == last.chunked.chunks
        S == last.chunkSize
    IN  /\ Len(parts) = (Len(last.content) + S - 1) \div S
        /\ \A i \in 1..(Len(parts) - 1) : Len(parts[i]) = S
        /\ Len(parts[Len(parts)]) \in 1..S
        /\ join(parts) = last.content

\* C24 witness: content without break points, a full stop inside, cut in
\* three parts with a shorter last one
C24_Witness ==
  /\ last.op = "chunkContent"
  /\ needsChunking(last.content)
  /\ NoBreakPoints(last.content)
  /\ \E i \in 1..Len(last.content) : last.content[i] = "."
  /\ last.chunked.chunkCount = 3
  /\ Len(last.chunked.chunks[3]) < last.chunkSize

Observable(row) ==
  [version |-> row.version, archived |-> row.archived_at # NullTime,
   title |-> row.title, content |-> row.content, summary |-> row.summary,
   priority |-> row.priority]

\* the artifact the embedded store leaves after update(id, data) that ends
\* without error
EmbeddedUpdateLeaves(row, data) ==
  IF Supplied(data) = {} THEN row ELSE UpdatedRow(row, data)

\* C25 (as claimed): a call the hosted store serves leaves the artifact as
\* the embedded store leaves it after the same call on the same rows: same
\* version counter, archival state, title, content, summary and priority
\* after update, archive, restore and rollback.
C25_StoresAgree ==
  [][\A u \in Tenants, id \in DOMAIN artifacts :
       /\ \A data \in UpdateInputs :
            (/\ SupabaseUpdate(u, id, data)
             /\ last'.outcome = "ok"
             /\ ~(data.title # UNDEF
                  /\ TitleTaken(id, artifacts[id].project_id, data.title))) =>
              Observable(artifacts'[id]) =
                Observable(EmbeddedUpdateLeaves(artifacts[id], data))
       /\ (/\ SupabaseArchive(u, id)
           /\ last'.outcome = "ok"
           /\ artifacts[id].archived_at = NullTime) =>
            Observable(artifacts'[id]) = Observable(ArchivedRow(artifacts[id]))
       /\ (/\ SupabaseRestore(u, id)
           /\ last'.outcome = "ok"
           /\ artifacts[id].archived_at # NullTime) =>
            Observable(artifacts'[id]) = Observable(RestoredRow(artifacts[id]))
       /\ \A vid \in {artifact_versions[i].id :
                         i \in 1..Len(artifact_versions)} :
            (/\ SupabaseRollback(u, id, vid)
             /\ last'.outcome = "ok"
             /\ ~TitleTaken(id, artifacts[id].project_id,
                            SnapshotRow(vid).title)) =>
              Observable(artifacts'[id]) =
                Observable(RolledBackRow(artifacts[id], SnapshotRow(vid),
                                         artifacts[id]))
    ]_vars

\* tenant u owns project p, artifact id, snapshot vid
OwnsProject(u, p) == p \in DOMAIN projects /\ projects[p].user_id = u

OwnsArtifact(u, id) ==
  id \in DOMAIN artifacts /\ OwnsProject(u, artifacts[id].project_id)

OwnsVersion(u, vid) ==
  \E i \in 1..Len(artifact_versions) :
    /\ artifact_versions[i].id = vid
    /\ OwnsArtifact(u, artifact_versions[i].artifact_id)

\* the call changed no table
NoRowChanged ==
  /\ projects' = projects
  /\ artifacts' = artifacts
  /\ artifact_versions' = artifact_versions

\* how a call of the hosted adapter ends for an identifier that does not
\* exist: the getters return null, every other call throws
NotFoundOutcome(op) ==
  IF op \in {"get", "getVersion", "projects.get"} THEN "null" ELSE "Error"

C27_SnapshotAndUpdateAtomic ==
  [][\A id \in DOMAIN artifacts :
       (/\ Len(artifact_versions') = Len(artifact_versions) + 1
        /\ artifact_versions'[Len(artifact_versions')].artifact_id = id
        /\ artifact_versions'[Len(artifact_versions')].change_source
             \in {"update", "restore", "rollback"}) =>
         artifacts'[id].version = artifacts[id].version + 1
    ]_vars

\* the names of the calls differ pairwise even when letter case is ignored
PairwiseDifferent(names) ==
  \A i, j \in DOMAIN names :
    i # j => NOCASE(names[i]) # NOCASE(names[j])

\* C28: when the projectSave calls started together carry names that differ
\* pairwise up to letter case, then however their steps interleave, once all
\* have returned each has status created, each name has exactly one project
\* row, that row is the one the call returned, and the identifiers differ.
C28_ConcurrentCreates ==
  (/\ last.op = "projectSave.all"
   /\ last.outcome = "settled"
   /\ PairwiseDifferent(last.names)) =>
    /\ \A i \in DOMAIN last.names :
         /\ last.results[i].status = "created"
         /\ Cardinality({k \in DOMAIN projects :
                           projects[k].name = last.names[i]}) = 1
         /\ last.results[i].id \in DOMAIN projects
         /\ projects[last.results[i].id].name = last.names[i]
    /\ \A i, j \in DOMAIN last.names :
         i # j => last.results[i].id # last.results[j].id
    /\ Cardinality(DOMAIN projects) = Len(last.names)

\* all calls have returned created for pairwise different names, and a
\* create ran while another call was between its lookup and its write
C28_Witness ==
  /\ last.op = "projectSave.all"
  /\ last.outcome = "settled"
  /\ PairwiseDifferent(last.names)
  /\ last.overlapped
  /\ \A i \in DOMAIN last.names : last.results[i].status = "created"

\* text holds query as a substring (letter case ignored)
ContainsText(text, query) ==
  /\ text # NULL
  /\ LET t == Lower(Chars(text))
         q == Lower(Chars(query))
     IN  \E i \in 1..(Len(t) - Len(q) + 1) : SubSeq(t, i, i + Len(q) - 1) = q

\* the artifacts a substring search for query within projectId is about
SubstringHits(query, projectId) ==
  {id \in DOMAIN artifacts :
     /\ artifacts[id].archived_at = NullTime
     /\ InScope(id, projectId)
     /\ \/ ContainsText(artifacts[id].title, query)
        \/ ContainsText(artifacts[id].content, query)
        \/ ContainsText(artifacts[id].summary, query)}

C30_InitializeIdempotent ==
  [][(SQLiteInitialize /\ schema.schema_version # {}) =>
       /\ last'.applied = <<>>
       /\ schema' = schema
       /\ UNCHANGED <<projects, artifacts, artifact_versions>>]_vars

\* C30 witness: initialize was called on a set-up database that holds a
\* project, an artifact and a snapshot, and ran no migration
C30_Witness ==
  /\ last.op = "initialize"
  /\ last.applied = <<>>
  /\ schema = [Migrated EXCEPT !.schema_version =
                 {[version |-> 1, applied_at |-> 1]}]
  /\ projects # <<>>
  /\ artifacts # <<>>
  /\ artifact_versions # <<>>

\* C31 (as claimed): an update or rollback of an existing artifact that
\* fails leaves the artifact row, its version counter and the version
\* history as they were: the failed call leaves no snapshot behind.
C31_FailedCallLeavesNoSnapshot ==
  [][(/\ last'.op \in {"update", "rollback"}
      /\ last'.outcome # "ok"
      /\ last'.id \in DOMAIN artifacts) =>
       /\ artifacts' = artifacts
       /\ artifact_versions' = artifact_versions]_vars

\* the index of the last occurrence of pattern that lies within the first
\* n characters of str, -1 when there is none
LastBreakWithin(str, pattern, n) ==
  LET window == IF n < Len(str) THEN n ELSE Len(str)
      at == {i \in 0..(window - Len(pattern)) :
               SubSeq(str, i + 1, i + Len(pattern)) = pattern}
  IN  IF at = {} THEN -1 ELSE CHOOSE i \in at : \A j \in at : j <= i

\* the cut the order of preference gives within the first n characters
PreferredCut(remaining, n) ==
  LET para == LastBreakWithin(remaining, <<"\n", "\n">>, n)
      line == LastBreakWithin(remaining, <<"\n">>, n)
      sentence == Max3(LastBreakWithin(remaining, <<".", " ">>, n),
                       LastBreakWithin(remaining, <<"!", " ">>, n),
                       LastBreakWithin(remaining, <<"?", " ">>, n))
  IN  IF 2 * para > n THEN para + 2
      ELSE IF 2 * line > n THEN line + 1
      ELSE IF 2 * sentence > n THEN sentence + 2
      ELSE n

\* C32 (as claimed): every cut of the loop is made, within the first
\* chunkSize characters of what remains, just after the last paragraph break
\* past the midpoint, else just after the last line break past the
\* midpoint, else just after the last sentence end past the midpoint, else
\* at chunkSize.
C32_SplitPreference ==
  [][(/\ last.op = "chunkContent.loop"
      /\ Len(last.remaining) > last.chunkSize) =>
       /\ last'.op = "chunkContent.loop"
       /\ last'.chunks =
            Append(last.chunks,
                   SubSeq(last.remaining, 1,
                          PreferredCut(last.remaining, last.chunkSize)))]_vars

\* C33 (as claimed): a lookup by name or by title, on either backend,
\* returns a record only if its stored name or title equals the argument
\* when letter case is ignored.
C33_LookupUsesNameEquality ==
  /\ (last.op = "projects.getByName" /\ last.outcome = "ok") =>
       NOCASE(projects[last.id].name) = NOCASE(last.arg)
  /\ (last.op = "artifacts.getByTitle" /\ last.outcome = "ok") =>
       NOCASE(artifacts[last.id].title) = NOCASE(last.arg)

\* the artifacts of the project of the last save that carry title
TitledInProject(title) ==
  {id \in DOMAIN artifacts :
     /\ artifacts[id].project_id = last.project_id
     /\ artifacts[id].title = title}

\* the name the i-th part of a chunked save is expected under
ExpectedPartName(name, i) == name \o "_part_" \o ToString(i)

\* C34: after an artifactSave that chunked the content into k parts and
\* succeeded, the project holds one artifact for each of name_part_1 ..
\* name_part_k, their contents joined in that order are the content saved,
\* one artifact name_index lists exactly these k names in order with the
\* checksum of the content, and the chunk count reported is k.
C34_ChunkedSaveStoresParts ==
  (last.op = "artifactSave" /\ last.outcome = "ok" /\ last.chunked) =>
    LET k == last.chunk_count
        part(i) == TitledInProject(ExpectedPartName(last.name, i))
        index == TitledInProject(last.name \o "_index")
    IN  /\ k >= 1
        /\ \A i \in 1..k : Cardinality(part(i)) = 1
        /\ join([i \in 1..k |->
                   artifacts[CHOOSE id \in part(i) : TRUE].content])
             = last.content
        /\ Cardinality(index) = 1
        /\ \A id \in index :
             /\ last.id = id
             /\ artifacts[id].content[6] = md5(last.content)
             /\ artifacts[id].content[8] = k
             /\ SubSeq(artifacts[id].content, 9, Len(artifacts[id].content))
                  = [i \in 1..k |-> ExpectedPartName(last.name, i)]

\* C34 witness: a save of content with a line break was chunked into two
\* parts, stored with their index
C34_Witness ==
  /\ last.op = "artifactSave"
  /\ last.outcome = "ok"
  /\ last.chunked
  /\ last.chunk_count = 2
  /\ Cardinality(DOMAIN artifacts) = 3
  /\ \E i \in 1..MaxContentLen : last.content[i] = "\n"

\* C37 (as claimed): after an artifactSave that succeeded without chunking,
\* the default list of the project holds exactly one artifact whose title
\* is the name up to letter case and whose content is the content saved.
C37_SavedArtifactIsListed ==
  (last.op = "artifactSave" /\ last.outcome = "ok" /\ ~last.chunked) =>
    Cardinality({id \in ListedIds(SQLiteList(last.project_id)) :
                   /\ NOCASE(artifacts[id].title) = NOCASE(last.name)
                   /\ artifacts[id].content = last.content}) = 1

\* C38: every part chunkContent returns for the default chunk size is safe
\* to transmit: needsChunking of the part is false, and the part is no
\* longer than the chunk size.
C38_PartsAreSafe ==
  (/\ last.op = "chunkContent"
   /\ last.chunkSize = MCP_CHUNK_SIZE) =>
    \A i \in 1..Len(last.chunked.chunks) :
      /\ ~needsChunking(last.chunked.chunks[i])
      /\ Len(last.chunked.chunks[i]) <= MCP_CHUNK_SIZE

\* the serialized-size half of C38 alone, on parts within the chunk size
C38_ShortPartsAreSafe ==
  (/\ last.op = "chunkContent"
   /\ last.chunkSize = MCP_CHUNK_SIZE) =>
    \A i \in 1..Len(last.chunked.chunks) :
      Len(last.chunked.chunks[i]) <= MCP_CHUNK_SIZE =>
        ~needsChunking(last.chunked.chunks[i])

\* what C35 calls a valid credential at time clock: a non-empty string with
\* the ctx_ prefix whose hash is in the key table and whose expiry, if any,
\* is not in the past
ValidCredential(api_keys, apiKey, clock) ==
  /\ apiKey.type = "string"
  /\ apiKey.text # <<>>
  /\ startsWith(apiKey.text, CtxPrefix)
  /\ \E r \in api_keys :
       /\ r.key_hash = hashApiKey(apiKey.text)
       /\ r.expires_at = NullTime \/ r.expires_at >= clock

\* the tenant the key table gives for the key
TenantOfKey(api_keys, apiKey) ==
  (CHOOSE r \in api_keys : r.key_hash = hashApiKey(apiKey.text)).user_id

\* an initialize() step binds exactly for a valid credential, no other step
\* touches the tenant id or the stores, and search without a tenant id fails
InitializeStepBinds ==
  /\ last'.op = "initialize" =>
       LET valid == ValidCredential(last.api_keys, last.apiKey, last.clock)
       IN  /\ (last'.outcome = "ok") <=> valid
           /\ valid =>
                /\ last'.userId = TenantOfKey(last.api_keys, last.apiKey)
                /\ last'.projectStore = [userId |-> last'.userId]
                /\ last'.artifactStore = [userId |-> last'.userId]
           /\ ~valid =>
                /\ last'.userId = last.userId
                /\ last'.projectStore = last.projectStore
                /\ last'.artifactStore = last.artifactStore
  /\ last'.op # "initialize" =>
       /\ last'.userId = last.userId
       /\ last'.projectStore = last.projectStore
       /\ last'.artifactStore = last.artifactStore
  /\ (last'.op = "search" /\ last.userId = NULL) =>
       last'.outcome = NotInitialized

\* an adapter without a tenant id has no store, and its search failed with
\* the not-initialized error
UnboundAdapterHasNoStore ==
  last.userId = NULL =>
    /\ last.projectStore = UNDEF
    /\ last.artifactStore = UNDEF
    /\ (last.op = "search" => last.outcome = NotInitialized)

\* C35: the hosted initialize() succeeds exactly for a valid credential (a
\* non-empty string with the ctx_ prefix whose hash is in the key table and
\* whose expiry, if any, is not in the past) and then stores the key's
\* tenant and creates both stores with it; otherwise it fails, stores no
\* tenant id and creates no store; an adapter that no initialize() has
\* bound has no tenant id and no store, and its search fails with the
\* not-initialized error.
C35_InitializeBindsValidKeysOnly ==
  /\ [][InitializeStepBinds]_vars
  /\ []UnboundAdapterHasNoStore

\* C35 witness: initialize failed for a key whose expiry has passed, on an
\* adapter that has no tenant id and no store
C35_Witness ==
  /\ last.op = "initialize"
  /\ last.outcome = "API key has expired"
  /\ last.userId = NULL
  /\ last.projectStore = UNDEF

\* the calls of the run that succeeded
RaceSucceeded == {i \in DOMAIN last.results : last.results[i] = "ok"}

\* C36 (as claimed): when hosted update or rollback calls on one artifact
\* interleave (a call reads the artifact after another has read it and
\* before that one writes) and succeed, the version counter ends above its
\* initial value by the number of successful calls: 2 for two callers.
C36_VersionCountsMutations ==
  (/\ last.op = "race"
   /\ \A i \in DOMAIN last.pc : last.pc[i] = "done"
   /\ last.overlapped) =>
    artifacts[last.id].version = last.initial + Cardinality(RaceSucceeded)

\* the calls of a run that ran one after the other raise the counter by one
\* each
RaceSequentialCounts ==
  (/\ last.op = "race"
   /\ \A i \in DOMAIN last.pc : last.pc[i] = "done"
   /\ ~last.overlapped) =>
    artifacts[last.id].version = last.initial + Cardinality(RaceSucceeded)

====
